---- MODULE Spec2Model ----
(***************************************************************************)
(* Transfer lifecycle, status reconciliation, regulator notification       *)
(* pipeline and unified scheduler of the banking API.                      *)
(*                                                                         *)
(* The store holds three tables: northwind_transfers, regulator_           *)
(* notifications and regulator_notification_attempts.  Rows are kept in    *)
(* creation order, a row's id is its index.  The scheduler goroutine is    *)
(* modelled step by step (one step per external call or store write);     *)
(* the foreground service calls are single steps that interleave with it. *)
(* Timestamps are kept relative to the current instant, in milliseconds:  *)
(* next_attempt_at = 0 means "due now or earlier".                         *)
(***************************************************************************)
EXTENDS Integers, Sequences, FiniteSets, TLC

VARIABLES
    users,            \* rows of the users table (ids)
    transfers,        \* northwind_transfers rows, in created_at order
    observed,         \* history: per transfer, the notifiable statuses ever stored
    notifs,           \* regulator_notifications rows, in created_at order
    attempts,         \* regulator_notification_attempts rows by notification_id, in attempted_at order
    pc,               \* position of the scheduler goroutine
    pollBatch,        \* transfers fetched by pollPendingTransfers, not yet processed
    retryBatch,       \* notifications fetched by retryPendingNotifications, not yet processed
    cur,              \* the in-memory *RegulatorNotification attemptDelivery works on
    httpStatus,       \* resp.StatusCode held between the two writes of the success branch
    notifyResult,     \* how CreateAndSendNotification returned for the transfer just polled:
                      \* "error" (an error), "skipped" (nil, the row existed),
                      \* "sent" (nil, after attemptDelivery), "none" (not called)
    ctxDone,          \* the scheduler context is cancelled
    disturbances,     \* disturbances so far: failed store operations, webhook POSTs
                      \* that did not end in 2xx, cancel and reverse requests,
                      \* deleted users, the cancellation of the context
    getResp,          \* outcome of the last GetTransfer request
    createResp,       \* outcome of the last CreateTransfer request, with the
                      \* upstream answers it received
    race,             \* the concurrent invocations of CreateAndSendNotification:
                      \* position, in-memory notification and return value of each
    queryFailed,      \* history: the transfers whose latest upstream status
                      \* query returned an error
    backoffCall,      \* the configuration of a RegulatorService, with the
                      \* arguments and the result of its last calculateBackoff
    createFailed,     \* history: the (transfer, status) pairs for which
                      \* CreateAndSendNotification returned an error before
                      \* the notification row was inserted
    doReq,            \* one doRequest call of the upstream client: its
                      \* configuration, loop state, the requests sent with
                      \* their outcomes, and its return value
    mapCall,          \* the argument and the result of the last MapStatus call
    pollCall,         \* one checkTransferStatus call seen with every column of
                      \* the transfer row: the row before, the upstream
                      \* response, the row stored after
    delivery          \* the payload of one notification: the bytes held in
                      \* memory, the stored jsonb value, the bodies POSTed

\* The state of the upstream client and of its helpers.
clientVars == <<doReq, mapCall, pollCall, delivery>>

vars == <<users, transfers, observed, notifs, attempts, pc, pollBatch, retryBatch,
          cur, httpStatus, notifyResult, ctxDone, disturbances, getResp, createResp, race, createFailed, queryFailed, backoffCall, clientVars>>

----------------------------------------------------------------------------
\* Bounds of the model.
MaxTransfers == 2
MaxDisturbances == 2
\* Row limits of the two fetches (50 and 20 in the source), scaled with
\* MaxTransfers so that a fetch can leave rows behind.
PollBatchLimit == 1
RetryBatchLimit == 1

\* Configuration of the regulator service (regulator.retry_initial_seconds,
\* regulator.retry_max_seconds).
retryInitialSeconds == 1
retryMaxSeconds == 2

\* A nullable column holding no value.
NULL == -1
NoUser == "none"
\* A timestamp column holding some instant.
SomeTime == 0
NoNotification ==
    [id |-> 0, transfer_id |-> 0, terminal_status |-> "", delivered |-> FALSE,
     attempt_count |-> 0, first_attempt_at |-> NULL, last_attempt_at |-> NULL,
     next_attempt_at |-> NULL, last_http_status |-> NULL, last_error |-> NULL]

Users == {"u1", "u2"}

NWTransferStatusPending == "PENDING"
NWTransferStatusProcessing == "PROCESSING"
NWTransferStatusCompleted == "COMPLETED"
NWTransferStatusFailed == "FAILED"
NWTransferStatusCancelled == "CANCELLED"
NWTransferStatusReversed == "REVERSED"

NonTerminal == {NWTransferStatusPending, NWTransferStatusProcessing}
Terminal == {NWTransferStatusCompleted, NWTransferStatusFailed,
             NWTransferStatusCancelled, NWTransferStatusReversed}
Notifiable == {NWTransferStatusCompleted, NWTransferStatusFailed}

\* Status strings the upstream bank may put in a response.
UpstreamStatuses == {"COMPLETED", "Completed", "failed", "CANCELLED", "reversed",
                     "PROCESSING", "PENDING", ""}

\* Outcomes of one webhook POST: an HTTP status, or 0 for a transport error.
TransportError == 0
RegulatorResponses == {TransportError, 200, 500}

\* Draws of rand.Float64()*2 - 1, in thousandths.
JitterDraws == {-1000, 999}

\* Time that passes in one step of the clock, in milliseconds.
ElapseMs == 1200

----------------------------------------------------------------------------
\* helpers.go: MapStatus
MapStatus(apiStatus) ==
    CASE apiStatus \in {"COMPLETED", "completed"} -> NWTransferStatusCompleted
      [] apiStatus \in {"FAILED", "failed"} -> NWTransferStatusFailed
      [] apiStatus \in {"CANCELLED", "cancelled"} -> NWTransferStatusCancelled
      [] apiStatus \in {"REVERSED", "reversed"} -> NWTransferStatusReversed
      [] apiStatus \in {"PROCESSING", "processing"} -> NWTransferStatusProcessing
      [] OTHER -> NWTransferStatusPending

RECURSIVE Pow2(_)
Pow2(n) == IF n <= 0 THEN 1 ELSE 2 * Pow2(n - 1)

Min(a, b) == IF a < b THEN a ELSE b

\* calculateBackoff without the floor of one second.
backoffMsNoFloor(base, max, attemptCount, jitter) ==
    LET capped == Min(base * Pow2(attemptCount - 1), max)
    IN  capped * 1000 + ((capped * jitter) \div 5)

\* regulator_service.go: calculateBackoff for a service configured with base
\* and max seconds, in milliseconds; jitter is the draw of
\* rand.Float64()*2 - 1 in thousandths.
backoffMs(base, max, attemptCount, jitter) ==
    LET capped == Min(base * Pow2(attemptCount - 1), max)
        ms == capped * 1000 + ((capped * jitter) \div 5)
    IN  IF ms < 1000 THEN 1000 ELSE ms

\* calculateBackoff of the service the scheduler runs.
calculateBackoff(attemptCount, jitter) ==
    backoffMs(retryInitialSeconds, retryMaxSeconds, attemptCount, jitter)

\* A service configured with base and max seconds, before any call of
\* calculateBackoff.
NoBackoffCall(base, max) ==
    [base |-> base, max |-> max, attemptCount |-> 0, jitter |-> 0, ms |-> 0]

RECURSIVE Take(_, _)
Take(s, n) == IF n <= 0 \/ s = <<>> THEN <<>> ELSE <<Head(s)>> \o Take(Tail(s), n - 1)

\* The rows of a table with their ids, as a query returns them.
TransferRows == [i \in 1..Len(transfers) |->
    [id |-> i, user |-> transfers[i].user, status |-> transfers[i].status]]

NotificationRows == [i \in 1..Len(notifs) |->
    [id |-> i,
     transfer_id |-> notifs[i].transfer_id,
     terminal_status |-> notifs[i].terminal_status,
     delivered |-> notifs[i].delivered,
     attempt_count |-> notifs[i].attempt_count,
     first_attempt_at |-> notifs[i].first_attempt_at,
     last_attempt_at |-> notifs[i].last_attempt_at,
     next_attempt_at |-> notifs[i].next_attempt_at,
     last_http_status |-> notifs[i].last_http_status,
     last_error |-> notifs[i].last_error]]

NotificationRow(n) ==
    [transfer_id |-> n.transfer_id,
     terminal_status |-> n.terminal_status,
     delivered |-> n.delivered,
     attempt_count |-> n.attempt_count,
     first_attempt_at |-> n.first_attempt_at,
     last_attempt_at |-> n.last_attempt_at,
     next_attempt_at |-> n.next_attempt_at,
     last_http_status |-> n.last_http_status,
     last_error |-> n.last_error]

IsPendingTransfer(t) == t.status \in NonTerminal

\* northwind_transfer_repository.go: GetPendingTransfers
GetPendingTransfers(limit) == Take(SelectSeq(TransferRows, IsPendingTransfer), limit)

\* The selection with a cap on the attempts, which the repository does not have.
IsPendingNotificationCapped(n) ==
    /\ n.delivered = FALSE /\ (n.next_attempt_at = NULL \/ n.next_attempt_at <= 0)
    /\ n.attempt_count < 2

\* The selection without the test of the delivered column.
IsPendingNotificationAnyDelivered(n) ==
    n.next_attempt_at = NULL \/ n.next_attempt_at <= 0

\* regulator notification repository: the WHERE clause of GetPendingNotifications
IsPendingNotification(n) ==
    n.delivered = FALSE /\ (n.next_attempt_at = NULL \/ n.next_attempt_at <= 0)

\* regulator notification repository: GetPendingNotifications
GetPendingNotifications(limit) ==
    Take(SelectSeq(NotificationRows, IsPendingNotification), limit)

\* regulator notification repository: ExistsForTransferAndStatus
ExistsForTransferAndStatus(transferID, terminalStatus) ==
    \E i \in 1..Len(notifs) :
        notifs[i].transfer_id = transferID /\ notifs[i].terminal_status = terminalStatus

\* n more disturbances happen in this step (n = 0: none).
Disturb(n) ==
    /\ disturbances + n <= MaxDisturbances
    /\ disturbances' = disturbances + n

Observe(t, status) ==
    IF status \in Notifiable THEN [observed EXCEPT ![t] = @ \cup {status}] ELSE observed

NoResponse ==
    [op |-> "none", caller |-> NoUser, id |-> 0, err |-> "none", data |-> FALSE,
     response |-> "none", upstream |-> FALSE]

\* No CreateTransfer request has been served.
NoCreateResponse ==
    [caller |-> NoUser,
     validation |-> [callFails |-> TRUE, valid |-> FALSE, errorIssue |-> FALSE],
     balance |-> [callFails |-> TRUE, available |-> 0],
     initiate |-> [callFails |-> TRUE, status |-> ""],
     err |-> "none", initiateCalled |-> FALSE, wellFormed |-> FALSE,
     upstreamID |-> "none"]

\* No doRequest call has been made.
NoRequest ==
    [maxRetries |-> 0, pc |-> "none", attempt |-> 0, ctxDone |-> FALSE,
     zeroBackoff |-> FALSE, cancelledAt |-> "none", sentAtCancel |-> 0,
     hasBody |-> FALSE, buffered |-> FALSE, requests |-> <<>>,
     lastErr |-> "nil", lastStatus |-> 0,
     ret |-> [body |-> FALSE, status |-> 0, err |-> "none", errStatus |-> 0]]

\* No checkTransferStatus call is looked at column by column.
NoPollCall == [before |-> <<>>, resp |-> <<>>, stored |-> <<>>, done |-> FALSE]

\* No notification payload is followed.
NoDelivery ==
    [pc |-> "none", values |-> <<>>, created |-> <<>>, memory |-> <<>>,
     stored |-> <<>>, posted |-> <<>>]

\* No MapStatus call has been made.
NoMapCall == [apiStatus |-> <<>>, status |-> "none"]

\* The goroutines that may call CreateAndSendNotification at the same time.
Callers == {1, 2}

\* A caller outside CreateAndSendNotification.
IdleCaller == [pc |-> "idle", result |-> "none", notification |-> NoNotification]

----------------------------------------------------------------------------
\* The store after the migrations, holding the registered users, and the
\* scheduler before its first tick.
InitWith(registered) ==
    /\ users = registered
    /\ transfers = <<>>
    /\ observed = [t \in 1..MaxTransfers |-> {}]
    /\ notifs = <<>>
    /\ attempts = <<>>
    /\ pc = "idle"
    /\ pollBatch = <<>>
    /\ retryBatch = <<>>
    /\ cur = NoNotification
    /\ httpStatus = NULL
    /\ notifyResult = "none"
    /\ ctxDone = FALSE
    /\ disturbances = 0
    /\ getResp = NoResponse
    /\ createResp = NoCreateResponse
    /\ race = [p \in Callers |-> IdleCaller]
    /\ createFailed = {}
    /\ queryFailed = {}
    /\ backoffCall = NoBackoffCall(retryInitialSeconds, retryMaxSeconds)
    /\ doReq = NoRequest
    /\ mapCall = NoMapCall
    /\ pollCall = NoPollCall
    /\ delivery = NoDelivery

\* One registered user.
Init == InitWith({"u1"})

\* Every user registered.
InitAccess == InitWith(Users)

----------------------------------------------------------------------------
\* The scheduler goroutine (worker/scheduler.go, polling service, regulator
\* service).

schedVars == <<pc, pollBatch, retryBatch, cur, httpStatus, notifyResult>>

\* scheduler.go: the ticker case of Start, up to the fetch of pollPendingTransfers.
\* Go's select may take the ticker case while ctx.Done() is ready too.
Tick ==
    /\ pc = "idle"
    /\ pc' = "poll"
    /\ \/ pollBatch' = GetPendingTransfers(PollBatchLimit) /\ Disturb(0)
       \/ pollBatch' = <<>> /\ Disturb(1)
    /\ UNCHANGED <<users, transfers, observed, notifs, attempts, retryBatch, cur,
                   httpStatus, notifyResult, ctxDone, getResp, createResp, race, createFailed, queryFailed, backoffCall, clientVars>>

\* pollPendingTransfers: case <-ctx.Done(): return
PollCancelled ==
    /\ pc = "poll" /\ pollBatch # <<>> /\ ctxDone
    /\ pollBatch' = <<>>
    /\ notifyResult' = "none"
    /\ UNCHANGED <<users, transfers, observed, notifs, attempts, pc, retryBatch, cur,
                   httpStatus, ctxDone, disturbances, getResp, createResp, race, createFailed, queryFailed, backoffCall, clientVars>>

\* checkTransferStatus returns without a delivery attempt: after failed store
\* failures, and with result the way CreateAndSendNotification returned.
PollSkip(failed, result) ==
    /\ pollBatch' = Tail(pollBatch)
    /\ Disturb(failed)
    /\ notifyResult' = result
    /\ UNCHANGED <<pc, retryBatch, cur, httpStatus, notifs, attempts, createFailed>>

\* CreateAndSendNotification returns an error before the row is inserted;
\* checkTransferStatus logs it and returns.
CreateFailed(transfer, terminalStatus, failed) ==
    /\ pollBatch' = Tail(pollBatch)
    /\ Disturb(failed)
    /\ notifyResult' = "error"
    /\ createFailed' = createFailed \cup {<<transfer.id, terminalStatus>>}
    /\ UNCHANGED <<pc, retryBatch, cur, httpStatus, notifs, attempts>>

\* A new row of regulator_notifications as CreateAndSendNotification builds it.
NewNotification(transferID, terminalStatus) ==
    [transfer_id |-> transferID, terminal_status |-> terminalStatus,
     delivered |-> FALSE, attempt_count |-> 0,
     first_attempt_at |-> NULL, last_attempt_at |-> NULL,
     next_attempt_at |-> 0, last_http_status |-> NULL, last_error |-> NULL]

\* notifRepo.Create fails on the unique index (transfer_id, terminal_status).
DuplicateKey(transferID, terminalStatus) ==
    ExistsForTransferAndStatus(transferID, terminalStatus)

\* An insert that leaves the first attempt to the retry pass.
InsertOnly(transfer, terminalStatus, failed) ==
    /\ ~DuplicateKey(transfer.id, terminalStatus)
    /\ notifs' = Append(notifs, NewNotification(transfer.id, terminalStatus))
    /\ attempts' = Append(attempts, <<>>)
    /\ pollBatch' = Tail(pollBatch)
    /\ notifyResult' = "sent"
    /\ Disturb(failed)
    /\ UNCHANGED <<pc, cur, retryBatch, httpStatus, createFailed>>

\* CreateAndSendNotification inserts the row and goes on to attemptDelivery.
InsertAndDeliver(transfer, terminalStatus, failed) ==
    /\ ~DuplicateKey(transfer.id, terminalStatus)
    /\ notifs' = Append(notifs, NewNotification(transfer.id, terminalStatus))
    /\ attempts' = Append(attempts, <<>>)
    /\ cur' = [id |-> Len(notifs) + 1] @@ NewNotification(transfer.id, terminalStatus)
    /\ pc' = "attemptDelivery"
    /\ Disturb(failed)
    /\ UNCHANGED <<pollBatch, retryBatch, httpStatus, notifyResult, createFailed>>

\* The same without the idempotency guard.
CreateAndSendNotificationNoGuard(transfer, terminalStatus, failed) ==
    \/ CreateFailed(transfer, terminalStatus, failed + 1)
    \/ DuplicateKey(transfer.id, terminalStatus) /\ CreateFailed(transfer, terminalStatus, failed)
    \/ InsertAndDeliver(transfer, terminalStatus, failed)

\* regulator_service.go: CreateAndSendNotification, up to the call of
\* attemptDelivery.  failed counts the store failures of the caller so far.
CreateAndSendNotification(transfer, terminalStatus, failed) ==
    \/ \* ExistsForTransferAndStatus or Create returns a store error
       CreateFailed(transfer, terminalStatus, failed + 1)
    \/ \* the row exists: return nil
       /\ ExistsForTransferAndStatus(transfer.id, terminalStatus)
       /\ PollSkip(failed, "skipped")
    \/ /\ ~ExistsForTransferAndStatus(transfer.id, terminalStatus)
       /\ \/ DuplicateKey(transfer.id, terminalStatus)
             /\ CreateFailed(transfer, terminalStatus, failed)
          \/ InsertAndDeliver(transfer, terminalStatus, failed)

\* A condition that leaves COMPLETED out.
ShouldNotifyFailedOnly(oldStatus, newStatus) ==
    newStatus = NWTransferStatusFailed

\* A condition that notifies for every terminal status.
ShouldNotifyAnyTerminal(oldStatus, newStatus) ==
    newStatus \in Terminal

\* The reconciler's condition for notifying the regulator.
ShouldNotify(oldStatus, newStatus) ==
    newStatus = NWTransferStatusCompleted \/ newStatus = NWTransferStatusFailed

\* transferRepo.Update of the poll: Save writes the whole in-memory row; a
\* user_id of a deleted user violates the foreign key.
ForeignKeyHolds(transfer) == transfer.user = NoUser \/ transfer.user \in users

\* An error branch that gives the transfer up as FAILED.
StatusQueryFailsMarksFailed ==
    /\ PollSkip(0, "none")
    /\ queryFailed' = queryFailed \cup {Head(pollBatch).id}
    /\ transfers' = [transfers EXCEPT ![Head(pollBatch).id].status = NWTransferStatusFailed]
    /\ observed' = Observe(Head(pollBatch).id, NWTransferStatusFailed)

\* An error branch that gives up the rest of the batch.
StatusQueryFailsAbortsPass ==
    /\ pollBatch' = <<>>
    /\ Disturb(0)
    /\ notifyResult' = "none"
    /\ queryFailed' = queryFailed \cup {Head(pollBatch).id}
    /\ UNCHANGED <<pc, retryBatch, cur, httpStatus, notifs, attempts, createFailed,
                   transfers, observed>>

\* checkTransferStatus when GetTransferStatus returns an error: log and return.
StatusQueryFails ==
    /\ PollSkip(0, "none")
    /\ queryFailed' = queryFailed \cup {Head(pollBatch).id}
    /\ UNCHANGED <<transfers, observed>>

\* polling service: checkTransferStatus for the next transfer of the batch.
CheckTransferStatus ==
    /\ pc = "poll" /\ pollBatch # <<>> /\ ~ctxDone
    /\ LET transfer == Head(pollBatch) IN
       \/ StatusQueryFails
       \/ \E apiStatus \in UpstreamStatuses :
            LET newStatus == MapStatus(apiStatus) IN
            /\ queryFailed' = queryFailed \ {transfer.id}
            /\ IF newStatus = transfer.status
               THEN PollSkip(0, "none") /\ UNCHANGED <<transfers, observed>>
               ELSE \/ \* transferRepo.Update fails
                       /\ \/ PollSkip(1, "none")
                          \/ ~ForeignKeyHolds(transfer) /\ PollSkip(0, "none")
                       /\ UNCHANGED <<transfers, observed>>
                    \/ /\ ForeignKeyHolds(transfer)
                       /\ transfers' = [transfers EXCEPT ![transfer.id] =
                                           [user |-> transfer.user, status |-> newStatus]]
                       /\ observed' = Observe(transfer.id, newStatus)
                       /\ IF ShouldNotify(transfer.status, newStatus)
                          THEN CreateAndSendNotification(transfer, newStatus, 0)
                          ELSE PollSkip(0, "none")
    /\ UNCHANGED <<users, ctxDone, getResp, createResp, race, backoffCall, clientVars>>

\* attemptDelivery returns to its caller: checkTransferStatus (through
\* CreateAndSendNotification, which then returns nil) while the poll loop
\* runs, else the retry loop.
Return ==
    /\ cur' = NoNotification
    /\ httpStatus' = NULL
    /\ IF pollBatch # <<>>
       THEN /\ pc' = "poll" /\ pollBatch' = Tail(pollBatch) /\ notifyResult' = "sent"
            /\ UNCHANGED retryBatch
       ELSE /\ pc' = "retry" /\ retryBatch' = Tail(retryBatch)
            /\ UNCHANGED <<pollBatch, notifyResult>>

\* notifRepo.Update: Save writes every column of the in-memory row.
Update(notification, ok) ==
    notifs' = IF ok THEN [notifs EXCEPT ![notification.id] = NotificationRow(notification)]
              ELSE notifs

\* recordAttempt: attemptRepo.Create of one attempt row.
recordAttempt(notification, status, hasError, ok) ==
    attempts' = IF ok THEN [attempts EXCEPT ![notification.id] =
                                Append(@, [notification_id |-> notification.id,
                                           http_status |-> status,
                                           error |-> hasError])]
                ELSE attempts

IsSuccess(status) == status >= 200 /\ status < 300

\* The success branch without the reset of next_attempt_at.
DeliveredKeepsNextAttempt(notification, status) ==
    [notification EXCEPT
        !.delivered = TRUE,
        !.attempt_count = @ + 1,
        !.last_attempt_at = SomeTime,
        !.last_http_status = status,
        !.first_attempt_at = IF @ = NULL THEN SomeTime ELSE @,
        !.last_error = NULL]

\* attemptDelivery, success branch: the fields set before notifRepo.Update.
Delivered(notification, status) ==
    [notification EXCEPT
        !.delivered = TRUE,
        !.attempt_count = @ + 1,
        !.last_attempt_at = SomeTime,
        !.last_http_status = status,
        !.first_attempt_at = IF @ = NULL THEN SomeTime ELSE @,
        !.next_attempt_at = NULL,
        !.last_error = NULL]

\* scheduleRetry without the increment of AttemptCount.
RescheduledSameCount(notification, jitter) ==
    [notification EXCEPT
        !.last_attempt_at = SomeTime,
        !.first_attempt_at = IF @ = NULL THEN SomeTime ELSE @,
        !.next_attempt_at = calculateBackoff(notification.attempt_count + 1, jitter)]

\* scheduleRetry: the fields set before notifRepo.Update.
Rescheduled(notification, jitter) ==
    [notification EXCEPT
        !.attempt_count = @ + 1,
        !.last_attempt_at = SomeTime,
        !.first_attempt_at = IF @ = NULL THEN SomeTime ELSE @,
        !.next_attempt_at = calculateBackoff(notification.attempt_count + 1, jitter)]

\* attemptDelivery: the POST and the first store write after it.  The request
\* carries ctx, so it fails once ctx is cancelled.
AttemptDelivery ==
    /\ pc = "attemptDelivery"
    /\ \E status \in RegulatorResponses, ok \in BOOLEAN :
        /\ ctxDone => status = TransportError
        /\ Disturb((IF IsSuccess(status) \/ ctxDone THEN 0 ELSE 1) + (IF ok THEN 0 ELSE 1))
        /\ IF IsSuccess(status)
           THEN /\ cur' = Delivered(cur, status)
                /\ Update(cur', ok)
                /\ httpStatus' = status
                /\ pc' = "recordAttempt"
                /\ UNCHANGED attempts
           ELSE /\ recordAttempt(cur, IF status = TransportError THEN NULL ELSE status, TRUE, ok)
                /\ pc' = "scheduleRetry"
                /\ UNCHANGED <<notifs, cur, httpStatus>>
    /\ UNCHANGED <<users, transfers, observed, pollBatch, retryBatch, notifyResult, ctxDone,
                   getResp, createResp, race, createFailed, queryFailed, backoffCall, clientVars>>

\* attemptDelivery, success branch: recordAttempt after the update, then return.
RecordSuccess ==
    /\ pc = "recordAttempt"
    /\ \E ok \in BOOLEAN :
        /\ Disturb(IF ok THEN 0 ELSE 1)
        /\ recordAttempt(cur, httpStatus, FALSE, ok)
    /\ Return
    /\ UNCHANGED <<users, transfers, observed, notifs, ctxDone, getResp, createResp, race, createFailed, queryFailed, backoffCall, clientVars>>

\* attemptDelivery, failure branches: scheduleRetry after recordAttempt, then return.
ScheduleRetry ==
    /\ pc = "scheduleRetry"
    /\ \E jitter \in JitterDraws, ok \in BOOLEAN :
        /\ Disturb(IF ok THEN 0 ELSE 1)
        /\ Update(Rescheduled(cur, jitter), ok)
    /\ Return
    /\ UNCHANGED <<users, transfers, observed, attempts, ctxDone, getResp, createResp, race, createFailed, queryFailed, backoffCall, clientVars>>

\* retryPendingNotifications up to its fetch.
retryPendingNotifications ==
    \/ retryBatch' = GetPendingNotifications(RetryBatchLimit) /\ Disturb(0)
    \/ retryBatch' = <<>> /\ Disturb(1)

\* RetryOnce, called by the scheduler when PollOnce has returned.
RetryOnce ==
    /\ pc = "poll" /\ pollBatch = <<>>
    /\ pc' = "retry"
    /\ retryPendingNotifications
    /\ notifyResult' = "none"
    /\ UNCHANGED <<users, transfers, observed, notifs, attempts, pollBatch, cur,
                   httpStatus, ctxDone, getResp, createResp, race, createFailed, queryFailed, backoffCall, clientVars>>

\* A retry loop without the ctx.Done() case.
RetryDeliverIgnoresCancel ==
    /\ pc = "retry" /\ retryBatch # <<>>
    /\ cur' = Head(retryBatch)
    /\ pc' = "attemptDelivery"
    /\ UNCHANGED <<users, transfers, observed, notifs, attempts, pollBatch, retryBatch,
                   httpStatus, notifyResult, ctxDone, disturbances, getResp, createResp, race, createFailed, queryFailed, backoffCall, clientVars>>

\* retryPendingNotifications: default branch of the loop's select.
RetryDeliver ==
    /\ pc = "retry" /\ retryBatch # <<>> /\ ~ctxDone
    /\ cur' = Head(retryBatch)
    /\ pc' = "attemptDelivery"
    /\ UNCHANGED <<users, transfers, observed, notifs, attempts, pollBatch, retryBatch,
                   httpStatus, notifyResult, ctxDone, disturbances, getResp, createResp, race, createFailed, queryFailed, backoffCall, clientVars>>

\* retryPendingNotifications: case <-ctx.Done(): return
RetryCancelled ==
    /\ pc = "retry" /\ retryBatch # <<>> /\ ctxDone
    /\ retryBatch' = <<>>
    /\ UNCHANGED <<users, transfers, observed, notifs, attempts, pc, pollBatch, cur,
                   httpStatus, notifyResult, ctxDone, disturbances, getResp, createResp, race, createFailed, queryFailed, backoffCall, clientVars>>

\* A ticker case that runs PollOnce again after RetryOnce.
TickDonePollsAgain ==
    /\ pc = "retry" /\ retryBatch = <<>>
    /\ pc' = "poll"
    /\ UNCHANGED <<users, transfers, observed, notifs, attempts, pollBatch, retryBatch, cur,
                   httpStatus, notifyResult, ctxDone, disturbances, getResp, createResp, race, createFailed, queryFailed, backoffCall, clientVars>>

\* The retry loop has ended: the tick is over, Start waits in its select again.
TickDone ==
    /\ pc = "retry" /\ retryBatch = <<>>
    /\ pc' = "idle"
    /\ UNCHANGED <<users, transfers, observed, notifs, attempts, pollBatch, retryBatch, cur,
                   httpStatus, notifyResult, ctxDone, disturbances, getResp, createResp, race, createFailed, queryFailed, backoffCall, clientVars>>

\* A Start that returns only when no transfer is left to reconcile.
StopWhenDrained ==
    /\ pc = "idle" /\ ctxDone /\ GetPendingTransfers(PollBatchLimit) = <<>>
    /\ pc' = "stopped"
    /\ UNCHANGED <<users, transfers, observed, notifs, attempts, pollBatch, retryBatch, cur,
                   httpStatus, notifyResult, ctxDone, disturbances, getResp, createResp, race, createFailed, queryFailed, backoffCall, clientVars>>

\* scheduler.go: case <-ctx.Done(): return
Stop ==
    /\ pc = "idle" /\ ctxDone
    /\ pc' = "stopped"
    /\ UNCHANGED <<users, transfers, observed, notifs, attempts, pollBatch, retryBatch, cur,
                   httpStatus, notifyResult, ctxDone, disturbances, getResp, createResp, race, createFailed, queryFailed, backoffCall, clientVars>>

\* The owner of the scheduler cancels its context.
CancelCtx ==
    /\ ~ctxDone
    /\ ctxDone' = TRUE
    /\ Disturb(1)
    /\ UNCHANGED <<users, transfers, observed, notifs, attempts, pc, pollBatch, retryBatch,
                   cur, httpStatus, notifyResult, getResp, createResp, race, createFailed, queryFailed, backoffCall, clientVars>>

----------------------------------------------------------------------------
\* The clock.

Shift(n) ==
    IF n.next_attempt_at > 0
    THEN [n EXCEPT !.next_attempt_at = IF @ > ElapseMs THEN @ - ElapseMs ELSE 0]
    ELSE n

\* ElapseMs milliseconds pass: every stored instant moves into the past.
Elapse ==
    /\ \E i \in 1..Len(notifs) : notifs[i].next_attempt_at > 0
    /\ notifs' = [i \in 1..Len(notifs) |-> Shift(notifs[i])]
    /\ retryBatch' = [i \in 1..Len(retryBatch) |-> Shift(retryBatch[i])]
    /\ cur' = Shift(cur)
    /\ UNCHANGED <<users, transfers, observed, attempts, pc, pollBatch, httpStatus,
                   notifyResult, ctxDone, disturbances, getResp, createResp, race, createFailed, queryFailed, backoffCall, clientVars>>

----------------------------------------------------------------------------
\* Foreground calls of NorthwindTransferService and of the store's owner.

\* Outcomes of the upstream validateTransfer call: the call fails, or it
\* answers with a valid flag and possibly an issue of severity "error".
ValidationOutcomes ==
    {[callFails |-> TRUE, valid |-> FALSE, errorIssue |-> FALSE]} \cup
    [callFails : {FALSE}, valid : BOOLEAN, errorIssue : BOOLEAN]

\* Outcomes of the upstream balance call, for a requested amount of 500.
RequestAmount == 500
BalanceOutcomes ==
    {[callFails |-> TRUE, available |-> 0]} \cup [callFails : {FALSE}, available : {250, 500}]

\* CreateTransfer, step 1: a validation response that fails the call.
ValidationRejects(v) == ~v.callFails /\ ~v.valid /\ v.errorIssue

\* The balance comparison the other way round.
BalanceRejectsReversed(b) == ~b.callFails /\ b.available > RequestAmount

\* CreateTransfer, step 2: a balance response that fails the call.
BalanceRejects(b) == ~b.callFails /\ b.available < RequestAmount

\* Outcomes of the upstream initiateTransfer call: the call fails (after the
\* client's retries), or it answers with the status of the new transfer.
InitiateOutcomes ==
    {[callFails |-> TRUE, status |-> ""]} \cup [callFails : {FALSE}, status : UpstreamStatuses]

\* CreateTransfer, step 4: the northwind_transfer_id of the row it stores:
\* the transfer id of the response when uuid.Parse accepts it (wellFormed),
\* else a fresh uuid; "none" when no row is stored.
StoredUpstreamID(wellFormed, error) ==
    IF error # "nil" THEN "none"
    ELSE IF wellFormed THEN "response" ELSE "fallback"

\* CreateTransfer: the call reaches step 3, client.InitiateTransfer.
InitiateCalled(v, b) == ~ValidationRejects(v) /\ ~BalanceRejects(b)

\* The same with a failed InitiateTransfer call treated like a failed
\* validation or balance call (log and go on).
CreateTransferErrorInitiateBestEffort(v, b, i, stored) ==
    IF ValidationRejects(v) THEN "ErrNWTransferValidationFailed"
    ELSE IF BalanceRejects(b) THEN "ErrNWTransferInsufficientBal"
    ELSE IF ~stored THEN "failed to store transfer"
    ELSE "nil"

\* CreateTransfer: the error it returns, for the answers v, b, i of the three
\* upstream calls and the outcome of transferRepo.Create.
CreateTransferError(v, b, i, stored) ==
    IF ValidationRejects(v) THEN "ErrNWTransferValidationFailed"
    ELSE IF BalanceRejects(b) THEN "ErrNWTransferInsufficientBal"
    ELSE IF i.callFails THEN "ErrNWTransferInitiateFailed"
    ELSE IF ~stored THEN "failed to store transfer"
    ELSE "nil"

\* CreateTransfer: its effect on the store.
CreateTransferCall(userID, v, b, i, stored) ==
    /\ userID \in users
    /\ Len(transfers) < MaxTransfers
    /\ IF CreateTransferError(v, b, i, stored) = "nil"
       THEN /\ transfers' = Append(transfers,
                    [user |-> userID, status |-> MapStatus(i.status)])
            /\ observed' = Observe(Len(transfers) + 1, MapStatus(i.status))
            /\ UNCHANGED disturbances
       ELSE /\ Disturb(IF CreateTransferError(v, b, i, stored) = "failed to store transfer"
                       THEN 1 ELSE 0)
            /\ UNCHANGED <<transfers, observed>>

\* transfer service: CreateTransfer
CreateTransfer(userID) ==
    /\ \E v \in ValidationOutcomes, b \in BalanceOutcomes, i \in InitiateOutcomes,
          stored \in BOOLEAN :
        CreateTransferCall(userID, v, b, i, stored)
    /\ UNCHANGED <<users, notifs, attempts, schedVars, ctxDone, getResp, createResp, race, createFailed, queryFailed, backoffCall, clientVars>>

\* A POST /transfers request of an authenticated user: CreateTransfer, with
\* the upstream answers and the result kept for inspection.
CreateTransferRequest(userID) ==
    /\ \E v \in ValidationOutcomes, b \in BalanceOutcomes, i \in InitiateOutcomes,
          stored \in BOOLEAN, wellFormed \in BOOLEAN :
        /\ i.callFails => ~wellFormed
        /\ CreateTransferCall(userID, v, b, i, stored)
        /\ createResp' = [caller |-> userID, validation |-> v, balance |-> b,
                          initiate |-> i,
                          err |-> CreateTransferError(v, b, i, stored),
                          initiateCalled |-> InitiateCalled(v, b),
                          wellFormed |-> wellFormed,
                          upstreamID |-> StoredUpstreamID(wellFormed,
                                            CreateTransferError(v, b, i, stored))]
    /\ UNCHANGED <<users, notifs, attempts, schedVars, ctxDone, getResp, race, createFailed, queryFailed, backoffCall, clientVars>>

\* transfer repository GetByID followed by the ownership check of GetTransfer.
GetTransfer(userID, transferID) ==
    IF transferID \notin 1..Len(transfers)
    THEN [err |-> "repositories.ErrNorthwindTransferNotFound", data |-> FALSE]
    ELSE IF transfers[transferID].user # NoUser /\ transfers[transferID].user # userID
         THEN [err |-> "services.ErrNWTransferNotFound", data |-> FALSE]
         ELSE [err |-> "nil", data |-> TRUE]

\* northwind_handler.go: GetTransfer, the mapping of the service's result.
HandlerResponse(r) ==
    IF r.err = "nil" THEN "OK"
    ELSE IF r.err = "services.ErrNWTransferNotFound" THEN "NorthwindTransferNotFound"
         ELSE "SystemError"

\* A GET /transfers/{id} request of an authenticated user.
GetTransferRequest(userID, transferID) ==
    /\ userID \in users
    /\ LET r == GetTransfer(userID, transferID) IN
        getResp' = [op |-> "get", caller |-> userID, id |-> transferID, err |-> r.err,
                    data |-> r.data, response |-> HandlerResponse(r),
                    upstream |-> FALSE]
    /\ UNCHANGED <<users, transfers, observed, notifs, attempts, schedVars, ctxDone,
                   disturbances, createResp, race, createFailed, queryFailed, backoffCall, clientVars>>

\* Outcomes of CancelTransfer and ReverseTransfer after the ownership check:
\* the upstream call fails, or it answers with a status and the row is then
\* saved or not.
MutationOutcomes ==
    {[kind |-> "callFails", status |-> ""]} \cup
    [kind : {"updateFails", "ok"}, status : UpstreamStatuses]

\* CancelTransfer and ReverseTransfer after the ownership check, for one
\* outcome: the local row takes the mapped status of the response and is saved.
UpstreamMutation(transferID, o) ==
    CASE o.kind = "callFails" ->
            UNCHANGED <<transfers, observed, disturbances>>
      [] o.kind = "updateFails" ->
            /\ Disturb(2)
            /\ UNCHANGED <<transfers, observed>>
      [] OTHER ->
            /\ transfers' = [transfers EXCEPT ![transferID].status = MapStatus(o.status)]
            /\ observed' = Observe(transferID, MapStatus(o.status))
            /\ Disturb(1)

\* CancelTransfer and ReverseTransfer after the upstream call: the local row
\* takes the mapped status of the response and is saved.
ApplyUpstreamStatus(transferID) ==
    \E o \in MutationOutcomes : UpstreamMutation(transferID, o)

\* transfer service: CancelTransfer
CancelTransfer(userID, transferID) ==
    /\ userID \in users
    /\ IF GetTransfer(userID, transferID).err # "nil"
       THEN UNCHANGED <<transfers, observed, disturbances>>
       ELSE ApplyUpstreamStatus(transferID)
    /\ UNCHANGED <<users, notifs, attempts, schedVars, ctxDone, getResp, createResp, race, createFailed, queryFailed, backoffCall, clientVars>>

\* transfer service: ReverseTransfer
ReverseTransfer(userID, transferID) ==
    /\ userID \in users
    /\ IF GetTransfer(userID, transferID).err # "nil"
       THEN UNCHANGED <<transfers, observed, disturbances>>
       ELSE ApplyUpstreamStatus(transferID)
    /\ UNCHANGED <<users, notifs, attempts, schedVars, ctxDone, getResp, createResp, race, createFailed, queryFailed, backoffCall, clientVars>>

\* CancelTransfer / ReverseTransfer: the error returned for an outcome.
MutationError(op, o) ==
    CASE o.kind = "callFails" -> "failed to " \o op \o " transfer"
      [] o.kind = "updateFails" -> "failed to update transfer after " \o op
      [] OTHER -> "nil"

\* A cancel or reverse request of an authenticated user: CancelTransfer or
\* ReverseTransfer, with what it returned and whether it called the upstream
\* operation kept for inspection.
MutateTransferRequest(op, userID, transferID) ==
    /\ userID \in users
    /\ LET r == GetTransfer(userID, transferID) IN
        IF r.err # "nil"
        THEN /\ getResp' = [op |-> op, caller |-> userID, id |-> transferID,
                            err |-> r.err, data |-> FALSE, response |-> "none",
                            upstream |-> FALSE]
             /\ UNCHANGED <<transfers, observed, disturbances>>
        ELSE \E o \in MutationOutcomes :
             /\ UpstreamMutation(transferID, o)
             /\ getResp' = [op |-> op, caller |-> userID, id |-> transferID,
                            err |-> MutationError(op, o),
                            data |-> (MutationError(op, o) = "nil"),
                            response |-> "none", upstream |-> TRUE]
    /\ UNCHANGED <<users, notifs, attempts, schedVars, ctxDone, createResp, race,
                   createFailed, queryFailed, backoffCall, clientVars>>

CancelTransferRequest(userID, transferID) ==
    MutateTransferRequest("cancel", userID, transferID)

ReverseTransferRequest(userID, transferID) ==
    MutateTransferRequest("reverse", userID, transferID)

\* A row of the users table is deleted: user_id ... ON DELETE SET NULL.
DeleteUser(userID) ==
    /\ userID \in users
    /\ Disturb(1)
    /\ users' = users \ {userID}
    /\ transfers' = [i \in 1..Len(transfers) |->
                        IF transfers[i].user = userID
                        THEN [transfers[i] EXCEPT !.user = NoUser]
                        ELSE transfers[i]]
    /\ UNCHANGED <<observed, notifs, attempts, schedVars, ctxDone, getResp, createResp, race, createFailed, queryFailed, backoffCall, clientVars>>

----------------------------------------------------------------------------
\* Two goroutines inside CreateAndSendNotification for the same transfer and
\* status (two reconcilers that have both stored the transition), each moving
\* one store operation or one POST at a time.

RaceTransfer == 1
RaceStatus == NWTransferStatusCompleted

\* Caller p moves to position to, holding notification n; result is what
\* CreateAndSendNotification returns once it is done.
RaceMove(p, to, n, result) ==
    race' = [race EXCEPT ![p] = [pc |-> to, result |-> result, notification |-> n]]

InitRace ==
    /\ users = {"u1"}
    /\ transfers = <<[user |-> "u1", status |-> RaceStatus]>>
    /\ observed = [t \in 1..MaxTransfers |-> IF t = RaceTransfer THEN {RaceStatus} ELSE {}]
    /\ notifs = <<>>
    /\ attempts = <<>>
    /\ pc = "idle"
    /\ pollBatch = <<>>
    /\ retryBatch = <<>>
    /\ cur = NoNotification
    /\ httpStatus = NULL
    /\ notifyResult = "none"
    /\ ctxDone = FALSE
    /\ disturbances = 0
    /\ getResp = NoResponse
    /\ createResp = NoCreateResponse
    /\ race = [p \in Callers |-> [IdleCaller EXCEPT !.pc = "exists"]]
    /\ createFailed = {}
    /\ queryFailed = {}
    /\ backoffCall = NoBackoffCall(retryInitialSeconds, retryMaxSeconds)
    /\ doReq = NoRequest
    /\ mapCall = NoMapCall
    /\ pollCall = NoPollCall
    /\ delivery = NoDelivery

raceFrame == <<users, transfers, observed, schedVars, ctxDone, getResp, createResp,
               createFailed, queryFailed, backoffCall, clientVars>>

\* CreateAndSendNotification: the idempotency guard.
RaceExists(p) ==
    /\ race[p].pc = "exists"
    /\ \/ /\ Disturb(1)
          /\ RaceMove(p, "done", NoNotification, "failed to check notification existence")
       \/ /\ Disturb(0)
          /\ IF ExistsForTransferAndStatus(RaceTransfer, RaceStatus)
             THEN RaceMove(p, "done", NoNotification, "nil")
             ELSE RaceMove(p, "create", NoNotification, "none")
    /\ UNCHANGED <<notifs, attempts, raceFrame>>

\* CreateAndSendNotification: notifRepo.Create and the return on its error.
RaceCreate(p) ==
    /\ race[p].pc = "create"
    /\ \/ /\ Disturb(1)
          /\ RaceMove(p, "done", NoNotification, "failed to create notification")
          /\ UNCHANGED <<notifs, attempts>>
       \/ /\ Disturb(0)
          /\ IF DuplicateKey(RaceTransfer, RaceStatus)
             THEN /\ RaceMove(p, "done", NoNotification,
                              "failed to create notification: notification already exists")
                  /\ UNCHANGED <<notifs, attempts>>
             ELSE /\ notifs' = Append(notifs, NewNotification(RaceTransfer, RaceStatus))
                  /\ attempts' = Append(attempts, <<>>)
                  /\ RaceMove(p, "attemptDelivery",
                              [id |-> Len(notifs) + 1] @@ NewNotification(RaceTransfer, RaceStatus),
                              "none")
    /\ UNCHANGED raceFrame

\* attemptDelivery of caller p: the POST and the first store write after it.
RaceAttemptDelivery(p) ==
    /\ race[p].pc = "attemptDelivery"
    /\ \E status \in RegulatorResponses, ok \in BOOLEAN :
        LET n == race[p].notification IN
        /\ Disturb((IF IsSuccess(status) THEN 0 ELSE 1) + (IF ok THEN 0 ELSE 1))
        /\ IF IsSuccess(status)
           THEN /\ Update(Delivered(n, status), ok)
                /\ RaceMove(p, "recordAttempt", Delivered(n, status), "none")
                /\ UNCHANGED attempts
           ELSE /\ recordAttempt(n, IF status = TransportError THEN NULL ELSE status, TRUE, ok)
                /\ RaceMove(p, "scheduleRetry", n, "none")
                /\ UNCHANGED notifs
    /\ UNCHANGED raceFrame

\* attemptDelivery of caller p, success branch: recordAttempt, then return nil.
RaceRecordSuccess(p) ==
    /\ race[p].pc = "recordAttempt"
    /\ \E ok \in BOOLEAN :
        /\ Disturb(IF ok THEN 0 ELSE 1)
        /\ recordAttempt(race[p].notification, race[p].notification.last_http_status, FALSE, ok)
    /\ RaceMove(p, "done", NoNotification, "nil")
    /\ UNCHANGED <<notifs, raceFrame>>

\* attemptDelivery of caller p, failure branches: scheduleRetry, then return nil.
RaceScheduleRetry(p) ==
    /\ race[p].pc = "scheduleRetry"
    /\ \E jitter \in JitterDraws, ok \in BOOLEAN :
        /\ Disturb(IF ok THEN 0 ELSE 1)
        /\ Update(Rescheduled(race[p].notification, jitter), ok)
    /\ RaceMove(p, "done", NoNotification, "nil")
    /\ UNCHANGED <<attempts, raceFrame>>

NextRace ==
    \E p \in Callers :
        \/ RaceExists(p)
        \/ RaceCreate(p)
        \/ RaceAttemptDelivery(p)
        \/ RaceRecordSuccess(p)
        \/ RaceScheduleRetry(p)

SpecRace == InitRace /\ [][NextRace]_vars

----------------------------------------------------------------------------
\* The two background loops as separate goroutines: the polling loop
\* (NorthwindPollingService.Start) inside CreateAndSendNotification for a
\* transition it has stored, and the retry loop (StartRetryLoop) on a tick of
\* its own ticker.

Poller == 1
Retrier == 2

InitLoops ==
    /\ users = {"u1"}
    /\ transfers = <<[user |-> "u1", status |-> RaceStatus]>>
    /\ observed = [t \in 1..MaxTransfers |-> IF t = RaceTransfer THEN {RaceStatus} ELSE {}]
    /\ notifs = <<>>
    /\ attempts = <<>>
    /\ pc = "idle"
    /\ pollBatch = <<>>
    /\ retryBatch = <<>>
    /\ cur = NoNotification
    /\ httpStatus = NULL
    /\ notifyResult = "none"
    /\ ctxDone = FALSE
    /\ disturbances = 0
    /\ getResp = NoResponse
    /\ createResp = NoCreateResponse
    /\ race = [p \in Callers |->
                  [IdleCaller EXCEPT !.pc = IF p = Poller THEN "exists" ELSE "tick"]]
    /\ createFailed = {}
    /\ queryFailed = {}
    /\ backoffCall = NoBackoffCall(retryInitialSeconds, retryMaxSeconds)
    /\ doReq = NoRequest
    /\ mapCall = NoMapCall
    /\ pollCall = NoPollCall
    /\ delivery = NoDelivery

\* StartRetryLoop: case <-ticker.C, retryPendingNotifications up to the
\* call of attemptDelivery for the first row of its batch; with nothing
\* pending the goroutine waits for the next tick.
RetryLoopTick(p) ==
    /\ race[p].pc = "tick"
    /\ LET batch == GetPendingNotifications(RetryBatchLimit) IN
        /\ batch # <<>>
        /\ RaceMove(p, "attemptDelivery", Head(batch), "none")
    /\ UNCHANGED <<notifs, attempts, disturbances, raceFrame>>

NextLoops ==
    \/ RaceExists(Poller)
    \/ RaceCreate(Poller)
    \/ RetryLoopTick(Retrier)
    \/ \E p \in Callers :
        \/ RaceAttemptDelivery(p)
        \/ RaceRecordSuccess(p)
        \/ RaceScheduleRetry(p)

SpecLoops == InitLoops /\ [][NextLoops]_vars

----------------------------------------------------------------------------
\* calculateBackoff on its own, for services of several configurations.

MaxAttemptCount == 7
BackoffBases == {0, 1, 2, 3}
BackoffCaps == {0, 1, 2, 60}
BackoffJitterDraws == {-1000, -500, 0, 500, 999}

InitBackoff ==
    /\ \E base \in BackoffBases, max \in BackoffCaps :
          backoffCall = NoBackoffCall(base, max)
    /\ users = {"u1"}
    /\ transfers = <<>>
    /\ observed = [t \in 1..MaxTransfers |-> {}]
    /\ notifs = <<>>
    /\ attempts = <<>>
    /\ pc = "idle"
    /\ pollBatch = <<>>
    /\ retryBatch = <<>>
    /\ cur = NoNotification
    /\ httpStatus = NULL
    /\ notifyResult = "none"
    /\ ctxDone = FALSE
    /\ disturbances = 0
    /\ getResp = NoResponse
    /\ createResp = NoCreateResponse
    /\ race = [p \in Callers |-> IdleCaller]
    /\ createFailed = {}
    /\ queryFailed = {}
    /\ doReq = NoRequest
    /\ mapCall = NoMapCall
    /\ pollCall = NoPollCall
    /\ delivery = NoDelivery

\* One call of calculateBackoff(attemptCount) with one draw of the jitter.
CalculateBackoff ==
    /\ \E attemptCount \in 1..MaxAttemptCount, jitter \in BackoffJitterDraws :
          backoffCall' = [backoffCall EXCEPT
              !.attemptCount = attemptCount,
              !.jitter = jitter,
              !.ms = backoffMs(backoffCall.base, backoffCall.max, attemptCount, jitter)]
    /\ UNCHANGED <<users, transfers, observed, notifs, attempts, schedVars, ctxDone,
                   disturbances, getResp, createResp, race, createFailed, queryFailed,
                   clientVars>>

NextBackoff == CalculateBackoff

SpecBackoff == InitBackoff /\ [][NextBackoff]_vars

----------------------------------------------------------------------------
\* The upstream client: one call of doRequest (integrations/northwind/client.go)
\* for a request whose body marshals and whose URL is well formed.

\* Largest max_retries a client is built with.
MaxRetries == 2

\* Status codes of upstream responses.
ClientStatuses == {200, 304, 400, 429, 500, 503}

\* What one httpClient.Do followed by io.ReadAll can end in: Do returns an
\* error, the body cannot be read, or the response is there.
ClientOutcomes ==
    {[outcome |-> "transport", status |-> 0]} \cup
    {[outcome |-> o, status |-> st] : o \in {"read", "response"}, st \in ClientStatuses}

\* doRequest is entered: nothing sent yet, the body (if any) in its buffer.
InitClient ==
    /\ \E n \in 0..MaxRetries, hasBody \in BOOLEAN, zeroBackoff \in BOOLEAN :
          doReq = [maxRetries |-> n, pc |-> "loop", attempt |-> 0, ctxDone |-> FALSE,
                   zeroBackoff |-> zeroBackoff, cancelledAt |-> "none",
                   sentAtCancel |-> 0,
                   hasBody |-> hasBody, buffered |-> hasBody, requests |-> <<>>,
                   lastErr |-> "nil", lastStatus |-> 0,
                   ret |-> [body |-> FALSE, status |-> 0, err |-> "none", errStatus |-> 0]]
    /\ mapCall = NoMapCall
    /\ pollCall = NoPollCall
    /\ delivery = NoDelivery
    /\ users = {"u1"}
    /\ transfers = <<>>
    /\ observed = [t \in 1..MaxTransfers |-> {}]
    /\ notifs = <<>>
    /\ attempts = <<>>
    /\ pc = "idle"
    /\ pollBatch = <<>>
    /\ retryBatch = <<>>
    /\ cur = NoNotification
    /\ httpStatus = NULL
    /\ notifyResult = "none"
    /\ ctxDone = FALSE
    /\ disturbances = 0
    /\ getResp = NoResponse
    /\ createResp = NoCreateResponse
    /\ race = [p \in Callers |-> IdleCaller]
    /\ createFailed = {}
    /\ queryFailed = {}
    /\ backoffCall = NoBackoffCall(retryInitialSeconds, retryMaxSeconds)

clientFrame == <<users, transfers, observed, notifs, attempts, schedVars, ctxDone,
                 disturbances, getResp, createResp, race, createFailed, queryFailed,
                 backoffCall, mapCall, pollCall, delivery>>

\* doRequest returns (body, status, err); errStatus is the StatusCode of an
\* *APIError.
ClientReturn(body, status, err, errStatus) ==
    doReq' = [doReq EXCEPT !.pc = "returned",
                           !.ret = [body |-> body, status |-> status, err |-> err,
                                    errStatus |-> errStatus]]

\* A loop that makes one attempt more than max_retries + 1.
LoopRunsOnceMore(attempt, maxRetries) == attempt <= maxRetries + 1

\* The condition of the retry loop.
LoopRuns(attempt, maxRetries) == attempt <= maxRetries

\* A client that also retries 429 Too Many Requests.
NoRetryExcept429(status) == status < 500 /\ status # 429

\* "Do not retry 4xx": the test inside the branch for status >= 400.
NoRetry(status) == status < 500

\* The head of the loop: its condition, the select before a retry, and the
\* return after the last attempt.  The select is entered with the timer of
\* time.After just created: with a zero backoff its channel may already be
\* ready, and a select with both channels ready takes either case; with a
\* positive backoff only ctx.Done() can be ready, else the goroutine parks.
ClientLoop ==
    /\ doReq.pc = "loop"
    /\ IF ~LoopRuns(doReq.attempt, doReq.maxRetries)
       THEN \* after the loop: lastErr with lastStatus
            ClientReturn(FALSE, doReq.lastStatus, doReq.lastErr,
                         IF doReq.lastErr = "APIError" THEN doReq.lastStatus ELSE 0)
       ELSE IF doReq.attempt = 0
            THEN doReq' = [doReq EXCEPT !.pc = "do"]
            ELSE \/ \* case <-ctx.Done()
                    doReq.ctxDone /\ ClientReturn(FALSE, 0, "ctx", 0)
                 \/ \* case <-time.After(0)
                    doReq.zeroBackoff /\ doReq' = [doReq EXCEPT !.pc = "do"]
                 \/ \* neither is ready
                    /\ ~doReq.ctxDone /\ ~doReq.zeroBackoff
                    /\ doReq' = [doReq EXCEPT !.pc = "wait"]
    /\ UNCHANGED clientFrame

\* The timer of a positive backoff fires while the goroutine is parked in
\* the select: case <-time.After(backoff), proceed to retry.
ClientTimer ==
    /\ doReq.pc = "wait"
    /\ doReq' = [doReq EXCEPT !.pc = "do"]
    /\ UNCHANGED clientFrame

\* The request NewRequestWithContext builds from the buffer: a drained
\* buffer has length 0 and gives a request without body.
RequestBody ==
    IF ~doReq.hasBody THEN "none" ELSE IF doReq.buffered THEN "full" ELSE "empty"

\* One attempt: build the request, httpClient.Do, io.ReadAll, and the
\* decision to return or to continue.
ClientDo ==
    /\ doReq.pc = "do"
    /\ \E o \in ClientOutcomes, drained \in BOOLEAN :
        /\ doReq.ctxDone => o.outcome = "transport"
        /\ o.outcome # "transport" => drained
        /\ LET sent == [doReq EXCEPT
                          !.requests = Append(@, [body |-> RequestBody,
                                                  outcome |-> o.outcome,
                                                  status |-> o.status]),
                          !.buffered = @ /\ ~drained]
               continue(err, status) ==
                   [sent EXCEPT !.lastErr = err, !.lastStatus = status,
                                !.attempt = @ + 1, !.pc = "loop"]
               return(body, status, err, errStatus) ==
                   [sent EXCEPT !.pc = "returned",
                                !.ret = [body |-> body, status |-> status, err |-> err,
                                         errStatus |-> errStatus]]
           IN  doReq' =
                 CASE o.outcome = "transport" -> continue("transport", doReq.lastStatus)
                   [] o.outcome = "read" -> continue("read", o.status)
                   [] OTHER ->
                        IF o.status >= 400
                        THEN IF NoRetry(o.status)
                             THEN return(FALSE, o.status, "APIError", o.status)
                             ELSE continue("APIError", o.status)
                        ELSE return(TRUE, o.status, "nil", 0)
    /\ UNCHANGED clientFrame

\* The caller's context is cancelled while doRequest runs.  A goroutine
\* parked in the select is woken by ctx.Done() and returns ctx.Err().
ClientCancel ==
    /\ doReq.pc \in {"loop", "do", "wait"} /\ ~doReq.ctxDone
    /\ LET cancelled == [doReq EXCEPT
                            !.ctxDone = TRUE,
                            !.cancelledAt = IF doReq.pc = "wait" \/
                                               (/\ doReq.pc = "loop" /\ doReq.attempt > 0
                                                /\ LoopRuns(doReq.attempt, doReq.maxRetries))
                                            THEN "between" ELSE "attempt",
                            !.sentAtCancel = Len(doReq.requests)]
       IN  doReq' = IF doReq.pc = "wait"
                    THEN [cancelled EXCEPT !.pc = "returned",
                                           !.ret = [body |-> FALSE, status |-> 0,
                                                    err |-> "ctx", errStatus |-> 0]]
                    ELSE cancelled
    /\ UNCHANGED clientFrame

NextClient == ClientLoop \/ ClientTimer \/ ClientDo \/ ClientCancel

SpecClient == InitClient /\ [][NextClient]_vars

----------------------------------------------------------------------------
\* MapStatus on its own, for status strings given letter by letter.

LowerLetters == <<"a", "b", "c", "d", "e", "f", "g", "h", "i", "j", "k", "l", "m",
                  "n", "o", "p", "q", "r", "s", "t", "u", "v", "w", "x", "y", "z">>
UpperLetters == <<"A", "B", "C", "D", "E", "F", "G", "H", "I", "J", "K", "L", "M",
                  "N", "O", "P", "Q", "R", "S", "T", "U", "V", "W", "X", "Y", "Z">>

ToLower(c) ==
    IF \E i \in 1..Len(UpperLetters) : UpperLetters[i] = c
    THEN LowerLetters[CHOOSE i \in 1..Len(UpperLetters) : UpperLetters[i] = c]
    ELSE c

ToUpper(c) ==
    IF \E i \in 1..Len(LowerLetters) : LowerLetters[i] = c
    THEN UpperLetters[CHOOSE i \in 1..Len(LowerLetters) : LowerLetters[i] = c]
    ELSE c

\* The string made of the given letters.
RECURSIVE Join(_)
Join(chars) == IF chars = <<>> THEN "" ELSE Head(chars) \o Join(Tail(chars))

\* The upstream status words the mapping knows, letter by letter.
StatusWords ==
    {<<"C", "O", "M", "P", "L", "E", "T", "E", "D">>,
     <<"F", "A", "I", "L", "E", "D">>,
     <<"C", "A", "N", "C", "E", "L", "L", "E", "D">>,
     <<"R", "E", "V", "E", "R", "S", "E", "D">>,
     <<"P", "R", "O", "C", "E", "S", "S", "I", "N", "G">>}

\* Every way of writing a word in upper-case and lower-case letters.
CaseVariants(w) ==
    {[i \in 1..Len(w) |-> IF i \in lower THEN ToLower(w[i]) ELSE w[i]] :
        lower \in SUBSET (1..Len(w))}

\* Strings that are no case variant of a status word.
OtherStatuses ==
    {<<>>,
     <<"P", "E", "N", "D", "I", "N", "G">>,
     <<"p", "e", "n", "d", "i", "n", "g">>,
     <<"C", "O", "M", "P", "L", "E", "T", "E">>,
     <<"C", "O", "M", "P", "L", "E", "T", "E", "D", " ">>,
     <<"D", "O", "N", "E">>,
     <<"f", "a", "i", "l">>,
     <<"U", "N", "K", "N", "O", "W", "N">>}

StatusInputs == UNION {CaseVariants(w) : w \in StatusWords} \cup OtherStatuses

InitMapStatus ==
    /\ \E apiStatus \in StatusInputs : mapCall = [apiStatus |-> apiStatus, status |-> "none"]
    /\ doReq = NoRequest
    /\ pollCall = NoPollCall
    /\ delivery = NoDelivery
    /\ users = {"u1"}
    /\ transfers = <<>>
    /\ observed = [t \in 1..MaxTransfers |-> {}]
    /\ notifs = <<>>
    /\ attempts = <<>>
    /\ pc = "idle"
    /\ pollBatch = <<>>
    /\ retryBatch = <<>>
    /\ cur = NoNotification
    /\ httpStatus = NULL
    /\ notifyResult = "none"
    /\ ctxDone = FALSE
    /\ disturbances = 0
    /\ getResp = NoResponse
    /\ createResp = NoCreateResponse
    /\ race = [p \in Callers |-> IdleCaller]
    /\ createFailed = {}
    /\ queryFailed = {}
    /\ backoffCall = NoBackoffCall(retryInitialSeconds, retryMaxSeconds)

\* One call of MapStatus(apiStatus).
MapStatusCall ==
    /\ mapCall.status = "none"
    /\ mapCall' = [mapCall EXCEPT !.status = MapStatus(Join(mapCall.apiStatus))]
    /\ UNCHANGED <<users, transfers, observed, notifs, attempts, schedVars, ctxDone,
                   disturbances, getResp, createResp, race, createFailed, queryFailed,
                   backoffCall, doReq, pollCall, delivery>>

NextMapStatus == MapStatusCall

SpecMapStatus == InitMapStatus /\ [][NextMapStatus]_vars

----------------------------------------------------------------------------
\* The store, the scheduler and the foreground callers, untouched by the
\* specifications that follow one call.
storeVars == <<users, transfers, observed, notifs, attempts, schedVars, ctxDone,
               disturbances, getResp, createResp, race, createFailed, queryFailed,
               backoffCall>>

\* The store after the migrations with one registered user; nothing running.
InitQuiet ==
    /\ users = {"u1"}
    /\ transfers = <<>>
    /\ observed = [t \in 1..MaxTransfers |-> {}]
    /\ notifs = <<>>
    /\ attempts = <<>>
    /\ pc = "idle"
    /\ pollBatch = <<>>
    /\ retryBatch = <<>>
    /\ cur = NoNotification
    /\ httpStatus = NULL
    /\ notifyResult = "none"
    /\ ctxDone = FALSE
    /\ disturbances = 0
    /\ getResp = NoResponse
    /\ createResp = NoCreateResponse
    /\ race = [p \in Callers |-> IdleCaller]
    /\ createFailed = {}
    /\ queryFailed = {}
    /\ backoffCall = NoBackoffCall(retryInitialSeconds, retryMaxSeconds)

----------------------------------------------------------------------------
\* checkTransferStatus with every column it writes (polling service), for one
\* transfer row and one upstream response.

\* RFC 3339 strings time.Parse accepts, with their instants (Unix seconds);
\* two of them denote the same instant.
RFC3339 ==
    [s \in {"2026-01-02T23:00:00Z", "2026-01-03T00:00:00+01:00", "2026-01-03T08:30:00Z"} |->
        CASE s = "2026-01-02T23:00:00Z" -> 1767394800
          [] s = "2026-01-03T00:00:00+01:00" -> 1767394800
          [] s = "2026-01-03T08:30:00Z" -> 1767429000]

\* helpers.go: ParseRFC3339Optional; nil for an empty or invalid string.
ParseRFC3339Optional(s) ==
    IF s = "" THEN NULL
    ELSE IF s \in DOMAIN RFC3339 THEN RFC3339[s] ELSE NULL

\* Date strings of an upstream response: omitted, invalid, valid.
ResponseDates == {"", "tomorrow", "2026-01-03T00:00:00+01:00", "2026-01-03T08:30:00Z"}
ResponseErrors == {"", "E42"}
ResponseStatuses == {"PROCESSING", "COMPLETED", "FAILED"}

\* Values a stored column can hold before the poll: null, or what an
\* earlier response put there (2025-12-31T00:00:00Z for the dates).
StoredDates == {NULL, 1767139200}
StoredErrors == {"", "E17"}

\* The NULL of a text column.
NullText == ""

InitPollFields ==
    /\ \E status \in NonTerminal, pd \in StoredDates, cd \in StoredDates,
          ed \in StoredDates, ec \in StoredErrors, em \in StoredErrors,
          rs \in ResponseStatuses, rpd \in ResponseDates, rcd \in ResponseDates,
          red \in ResponseDates, rec \in ResponseErrors, rem \in ResponseErrors :
        LET row == [status |-> status, processing_date |-> pd, completed_date |-> cd,
                    expected_completion_date |-> ed, error_code |-> ec,
                    error_message |-> em]
        IN  pollCall = [before |-> row,
                        resp |-> [status |-> rs, processing_date |-> rpd,
                                  completed_date |-> rcd,
                                  expected_completion_date |-> red,
                                  error_code |-> rec, error_message |-> rem],
                        stored |-> row, done |-> FALSE]
    /\ doReq = NoRequest
    /\ mapCall = NoMapCall
    /\ delivery = NoDelivery
    /\ InitQuiet

\* checkTransferStatus: the assignments to the in-memory row between the
\* status comparison and transferRepo.Update.
Polled(transfer, resp) ==
    [transfer EXCEPT
        !.status = MapStatus(resp.status),
        !.processing_date = ParseRFC3339Optional(resp.processing_date),
        !.completed_date = ParseRFC3339Optional(resp.completed_date),
        !.expected_completion_date = ParseRFC3339Optional(resp.expected_completion_date),
        !.error_code = IF resp.error_code # "" THEN resp.error_code ELSE @,
        !.error_message = IF resp.error_message # "" THEN resp.error_message ELSE @]

\* checkTransferStatus for the row, a response having arrived: return when
\* the status is the same, else save the whole row (the save may fail).
CheckTransferStatusFields ==
    /\ ~pollCall.done
    /\ \E ok \in BOOLEAN :
        pollCall' = [pollCall EXCEPT
            !.done = TRUE,
            !.stored = IF MapStatus(pollCall.resp.status) = pollCall.before.status \/ ~ok
                       THEN @
                       ELSE Polled(pollCall.before, pollCall.resp)]
    /\ UNCHANGED <<storeVars, doReq, mapCall, delivery>>

NextPollFields == CheckTransferStatusFields

SpecPollFields == InitPollFields /\ [][NextPollFields]_vars

----------------------------------------------------------------------------
\* The payload of one notification from CreateAndSendNotification through
\* its delivery attempts.  Bytes are token sequences: punctuation, a space,
\* a key or a value each count as one token.

MaxPosts == 3

\* RegulatorWebhookPayload: the JSON keys in struct order, letter by letter.
PayloadKeys ==
    << <<"e", "v", "e", "n", "t", "_", "i", "d">>,
       <<"t", "r", "a", "n", "s", "f", "e", "r", "_", "i", "d">>,
       <<"n", "o", "r", "t", "h", "w", "i", "n", "d", "_", "t", "r", "a", "n", "s",
         "f", "e", "r", "_", "i", "d">>,
       <<"s", "t", "a", "t", "u", "s">>,
       <<"a", "m", "o", "u", "n", "t">>,
       <<"c", "u", "r", "r", "e", "n", "c", "y">>,
       <<"d", "i", "r", "e", "c", "t", "i", "o", "n">>,
       <<"t", "r", "a", "n", "s", "f", "e", "r", "_", "t", "y", "p", "e">>,
       <<"t", "i", "m", "e", "s", "t", "a", "m", "p">> >>

\* The byte order of the characters of a key: '_' (0x5f) sorts before the
\* lower-case letters.
ByteRank(c) ==
    IF c = "_" THEN 0 ELSE CHOOSE i \in 1..Len(LowerLetters) : LowerLetters[i] = c

RECURSIVE BytesLess(_, _)
BytesLess(a, b) ==
    IF a = <<>> \/ b = <<>> THEN a = <<>> /\ b # <<>>
    ELSE IF Head(a) = Head(b) THEN BytesLess(Tail(a), Tail(b))
    ELSE ByteRank(Head(a)) < ByteRank(Head(b))

\* jsonb orders the keys of an object by length, then bytewise.
JsonbKeyLess(a, b) ==
    Len(a) < Len(b) \/ (Len(a) = Len(b) /\ BytesLess(a, b))

RECURSIVE JsonbSort(_)
JsonbSort(keys) ==
    IF keys = {} THEN <<>>
    ELSE LET first == CHOOSE k \in keys : \A o \in keys \ {k} : JsonbKeyLess(k, o)
         IN  <<first>> \o JsonbSort(keys \ {first})

\* json.Marshal of the struct: fields in struct order, no whitespace.
RECURSIVE MarshalFields(_, _)
MarshalFields(values, i) ==
    IF i > Len(PayloadKeys) THEN <<>>
    ELSE <<Join(PayloadKeys[i]), ":", values[i]>>
         \o (IF i < Len(PayloadKeys) THEN <<",">> ELSE <<>>)
         \o MarshalFields(values, i + 1)

Marshal(values) == <<"{">> \o MarshalFields(values, 1) \o <<"}">>

\* The tokens of a JSON text without its insignificant whitespace.
Compact(bytes) == SelectSeq(bytes, LAMBDA tok : tok # " ")

\* jsonb input: the value of a key in the JSON text.
Member(bytes, key) ==
    LET c == Compact(bytes)
        i == CHOOSE j \in 1..Len(c) : j % 4 = 2 /\ c[j] = Join(key)
    IN  c[i + 2]

\* jsonb input: the stored value, members in jsonb key order.
JsonbIn(bytes) ==
    LET sorted == JsonbSort({PayloadKeys[i] : i \in 1..Len(PayloadKeys)})
    IN  [i \in 1..Len(sorted) |-> <<Join(sorted[i]), Member(bytes, sorted[i])>>]

\* jsonb output: members in stored order, a space after ':' and after ','.
RECURSIVE JsonbMembers(_, _)
JsonbMembers(stored, i) ==
    IF i > Len(stored) THEN <<>>
    ELSE <<stored[i][1], ":", " ", stored[i][2]>>
         \o (IF i < Len(stored) THEN <<",", " ">> ELSE <<>>)
         \o JsonbMembers(stored, i + 1)

JsonbOut(stored) == <<"{">> \o JsonbMembers(stored, 1) \o <<"}">>

\* Field values of a payload: event ids minted by uuid.New, the terminal
\* status, the amount and the direction; the other fields are those of one transfer.
PayloadValues ==
    {<<e, "t1", "n1", st, am, "USD", dir, "ACH", "2026-01-03T08:30:00Z">> :
        e \in {"e1", "e2"}, st \in {"COMPLETED", "FAILED"}, am \in {"100", "12.5"},
        dir \in {"OUTBOUND", "INBOUND"}}

InitPayload ==
    /\ \E values \in PayloadValues :
        delivery = [NoDelivery EXCEPT !.pc = "create", !.values = values]
    /\ doReq = NoRequest
    /\ mapCall = NoMapCall
    /\ pollCall = NoPollCall
    /\ InitQuiet

payloadFrame == <<storeVars, doReq, mapCall, pollCall>>

\* CreateAndSendNotification up to notifRepo.Create: the payload is
\* marshalled once and inserted into the jsonb column; on success the
\* first attempt follows with the notification object still in memory.
PayloadCreate ==
    /\ delivery.pc = "create"
    /\ \E ok \in BOOLEAN :
        LET payloadBytes == Marshal(delivery.values)
        IN  delivery' = IF ok
                        THEN [delivery EXCEPT !.pc = "attempt",
                                              !.created = payloadBytes,
                                              !.memory = payloadBytes,
                                              !.stored = JsonbIn(payloadBytes)]
                        ELSE [delivery EXCEPT !.pc = "done"]
    /\ UNCHANGED payloadFrame

\* attemptDelivery: POST notification.Payload of the object in memory, then
\* save the whole row (markDelivered or scheduleRetry; the save may fail).
PayloadAttempt ==
    /\ delivery.pc = "attempt"
    /\ \E delivered \in BOOLEAN, ok \in BOOLEAN :
        delivery' = [delivery EXCEPT
            !.posted = Append(@, delivery.memory),
            !.stored = IF ok THEN JsonbIn(delivery.memory) ELSE @,
            !.pc = IF (delivered /\ ok) \/ Len(delivery.posted) + 1 >= MaxPosts
                   THEN "done" ELSE "pending"]
    /\ UNCHANGED payloadFrame

\* retryPendingNotifications: the row is read back from the store and
\* handed to attemptDelivery.
PayloadRetry ==
    /\ delivery.pc = "pending"
    /\ delivery' = [delivery EXCEPT !.pc = "attempt",
                                    !.memory = JsonbOut(delivery.stored)]
    /\ UNCHANGED payloadFrame

NextPayload == PayloadCreate \/ PayloadAttempt \/ PayloadRetry

SpecPayload == InitPayload /\ [][NextPayload]_vars

----------------------------------------------------------------------------
Scheduler ==
    \/ Tick
    \/ PollCancelled
    \/ CheckTransferStatus
    \/ AttemptDelivery
    \/ RecordSuccess
    \/ ScheduleRetry
    \/ RetryOnce
    \/ RetryDeliver
    \/ RetryCancelled
    \/ TickDone
    \/ Stop

Foreground ==
    \/ \E u \in Users : CreateTransfer(u)
    \/ \E u \in Users, t \in 1..MaxTransfers : CancelTransfer(u, t)
    \/ \E u \in Users, t \in 1..MaxTransfers : ReverseTransfer(u, t)
    \/ \E u \in Users : DeleteUser(u)

Next ==
    \/ Scheduler
    \/ Foreground
    \/ CancelCtx
    \/ Elapse

Spec == Init /\ [][Next]_vars

\* The scheduler goroutine keeps running and time keeps passing.
FairSpec == Spec /\ WF_vars(Scheduler) /\ WF_vars(Elapse)

\* Start's select: when ctx.Done() is ready, Go chooses among the ready
\* cases at random, so the ticker case is not taken for ever.
FairStopSpec == FairSpec /\ SF_vars(Stop)

\* The transfer endpoints alone: the scheduler changes neither which
\* transfers exist nor who owns them.
NextAccess ==
    \/ Foreground
    \/ \E u \in Users, t \in 1..MaxTransfers : GetTransferRequest(u, t)

SpecAccess == InitAccess /\ [][NextAccess]_vars

\* The scheduler from a pass whose fetch has returned every row of its table:
\* a poll pass over all transfers, each pending, or a retry pass over
\* notifications that are all due after a failed first attempt.
InitBatch ==
    /\ users = {"u1"}
    /\ \/ /\ transfers \in [1..MaxTransfers -> [user : {"u1"}, status : NonTerminal]]
          /\ observed = [t \in 1..MaxTransfers |-> {}]
          /\ notifs = <<>>
          /\ attempts = <<>>
          /\ pc = "poll"
          /\ pollBatch = GetPendingTransfers(MaxTransfers)
          /\ retryBatch = <<>>
       \/ /\ transfers \in [1..MaxTransfers -> [user : {"u1"}, status : Notifiable]]
          /\ observed = [t \in 1..MaxTransfers |-> {transfers[t].status}]
          /\ notifs = [t \in 1..MaxTransfers |->
                          [NewNotification(t, transfers[t].status) EXCEPT
                              !.attempt_count = 1,
                              !.first_attempt_at = SomeTime,
                              !.last_attempt_at = SomeTime]]
          /\ attempts = [t \in 1..MaxTransfers |->
                            <<[notification_id |-> t, http_status |-> 500, error |-> TRUE]>>]
          /\ pc = "retry"
          /\ pollBatch = <<>>
          /\ retryBatch = GetPendingNotifications(MaxTransfers)
    /\ cur = NoNotification
    /\ httpStatus = NULL
    /\ notifyResult = "none"
    /\ ctxDone = FALSE
    /\ disturbances = 0
    /\ getResp = NoResponse
    /\ createResp = NoCreateResponse
    /\ race = [p \in Callers |-> IdleCaller]
    /\ createFailed = {}
    /\ queryFailed = {}
    /\ backoffCall = NoBackoffCall(retryInitialSeconds, retryMaxSeconds)
    /\ doReq = NoRequest
    /\ mapCall = NoMapCall
    /\ pollCall = NoPollCall
    /\ delivery = NoDelivery

NextBatch == Scheduler \/ CancelCtx \/ Elapse

SpecBatch == InitBatch /\ [][NextBatch]_vars

\* The cancel and reverse endpoints, with transfers created and users deleted.
NextMutate ==
    \/ \E u \in Users : CreateTransfer(u)
    \/ \E u \in Users : DeleteUser(u)
    \/ \E u \in Users, t \in 1..MaxTransfers : CancelTransferRequest(u, t)
    \/ \E u \in Users, t \in 1..MaxTransfers : ReverseTransferRequest(u, t)

SpecMutate == InitAccess /\ [][NextMutate]_vars

\* The transfer creation endpoint alone.
NextCreate == \E u \in Users : CreateTransferRequest(u)

SpecCreate == Init /\ [][NextCreate]_vars

----------------------------------------------------------------------------
\* Properties.

\* No scheduler tick is in progress (the foreground calls are single steps).
Quiescent == pc \in {"idle", "stopped"}

\* The attempt rows of notification i that carry a 2xx status.
SuccessAttempts(i) ==
    {k \in 1..Len(attempts[i]) :
        attempts[i][k].http_status >= 200 /\ attempts[i][k].http_status <= 299}

\* C1 (no loss): whenever no operation is in progress, every transfer whose
\* stored status is or has ever been COMPLETED or FAILED has a notification
\* row for that transfer and status.
C1_NoLoss ==
    Quiescent =>
        \A t \in 1..Len(transfers) : \A status \in observed[t] :
            ExistsForTransferAndStatus(t, status)

\* C2 (idempotent creation): at most one notification row exists per
\* (transfer, status), and exactly one once CreateAndSendNotification has
\* returned nil for the pair; a call that finds the row present inserts no
\* row, makes no delivery attempt and returns nil; no step lowers a row's
\* attempt_count.
C2_IdempotentCreation ==
    [][LET transfer == Head(pollBatch)
           RowsAfter(t, status) ==
               {i \in 1..Len(notifs') :
                   notifs'[i].transfer_id = t /\ notifs'[i].terminal_status = status}
       IN
       /\ \A t \in 1..MaxTransfers, status \in Notifiable :
              Cardinality(RowsAfter(t, status)) <= 1
       /\ \A i \in 1..Len(notifs) :
              Len(notifs') >= i /\ notifs'[i].attempt_count >= notifs[i].attempt_count
       /\ (pc = "poll" /\ pollBatch # <<>> /\ CheckTransferStatus /\ transfers' # transfers
             /\ transfers'[transfer.id].status \in Notifiable)
           => /\ (notifyResult' = "skipped" \/ pc' = "attemptDelivery")
                  => Cardinality(RowsAfter(transfer.id, transfers'[transfer.id].status)) = 1
              /\ (ExistsForTransferAndStatus(transfer.id, transfers'[transfer.id].status)
                    /\ disturbances' = disturbances)
                  => /\ notifs' = notifs
                     /\ attempts' = attempts
                     /\ pc' = "poll"
                     /\ notifyResult' = "skipped"
    ]_vars

\* C2, its case: a call has found the row present and returned nil, for a
\* notification that had been attempted before.
C2_Witness ==
    /\ notifyResult = "skipped"
    /\ \E i \in 1..Len(notifs) : notifs[i].attempt_count >= 1

\* C3 (at-least-once delivery): while the scheduler keeps ticking, time keeps
\* passing and the context is not cancelled, every notification row is
\* eventually delivered, whatever other rows are undelivered.
C3_AtLeastOnceDelivery ==
    \A i \in 1..(2 * MaxTransfers) :
        (Len(notifs) >= i) ~> (ctxDone \/ (Len(notifs) >= i /\ notifs[i].delivered))

\* C3, its case: a notification was delivered after a failed attempt, while
\* another one is undelivered.
C3_Witness ==
    /\ ~ctxDone
    /\ \E i \in 1..Len(notifs) :
         /\ notifs[i].delivered /\ notifs[i].attempt_count >= 2
         /\ \E j \in 1..Len(notifs) : ~notifs[j].delivered

\* C4 (attempt ledger integrity): whenever no operation is in progress, a
\* notification's attempt_count equals the number of its attempt rows.
C4_AttemptLedgerIntegrity ==
    Quiescent =>
        \A i \in 1..Len(notifs) : notifs[i].attempt_count = Len(attempts[i])

\* C5 (delivery correctness): whenever no operation is in progress, a
\* notification is delivered if and only if it has an attempt row with a
\* status in [200, 299].
C5_DeliveryCorrectness ==
    Quiescent =>
        \A i \in 1..Len(notifs) : notifs[i].delivered <=> SuccessAttempts(i) # {}

\* C6 (atomic attempt recording): in every state of the store, a delivered
\* notification has an attempt row with a status in [200, 299].
C6_AtomicAttemptRecording ==
    \A i \in 1..Len(notifs) : notifs[i].delivered => SuccessAttempts(i) # {}

\* C7: a delivered notification has next_attempt_at null and last_http_status
\* in [200, 299].
C7_DeliveredFields ==
    \A i \in 1..Len(notifs) :
        notifs[i].delivered =>
            /\ notifs[i].next_attempt_at = NULL
            /\ notifs[i].last_http_status >= 200 /\ notifs[i].last_http_status <= 299

\* C7, its case: a notification that had a retry scheduled is delivered.
C7_Witness ==
    \E i \in 1..Len(notifs) : notifs[i].delivered /\ notifs[i].attempt_count >= 2

\* C8 (status monotonicity): no step takes a transfer whose status is terminal
\* to PENDING or PROCESSING.
C8_StatusMonotonicity ==
    [][\A t \in 1..Len(transfers) :
          transfers[t].status \in Terminal => transfers'[t].status \notin NonTerminal]_vars

\* C9 (ownership scoping): a GetTransfer request of user u for an existing
\* transfer whose stored user is not u (null included) ends in NotFound and
\* returns no data.
C9_OwnershipScoping ==
    [][\A u \in Users, t \in 1..MaxTransfers :
          (GetTransferRequest(u, t) /\ t \in 1..Len(transfers) /\ transfers[t].user # u)
              => (getResp'.err = "services.ErrNWTransferNotFound" /\ ~getResp'.data)]_vars

\* C10 (existence not revealed): a user's request for a missing id and the
\* same user's next request, for a transfer of another user, end with the same
\* error and the same HTTP response.
C10_ExistenceNotRevealed ==
    [][\A u \in Users, t \in 1..MaxTransfers :
          (/\ getResp.caller = u /\ getResp.id \in 1..MaxTransfers
           /\ getResp.id \notin 1..Len(transfers)
           /\ GetTransferRequest(u, t)
           /\ t \in 1..Len(transfers) /\ transfers[t].user \notin {u, NoUser})
              => (getResp'.err = getResp.err /\ getResp'.response = getResp.response)]_vars

\* C11 (idempotent creation under race): once two interleaved invocations of
\* CreateAndSendNotification for the same (transfer, COMPLETED) have both
\* returned, neither with a store error, both have returned nil, exactly one
\* notification row exists and at most one attempt row has a 2xx status.
C11_IdempotentCreationUnderRace ==
    (/\ \A p \in Callers : race[p].pc = "done"
     /\ \A p \in Callers :
            race[p].result \notin {"failed to check notification existence",
                                   "failed to create notification"})
        => /\ \A p \in Callers : race[p].result = "nil"
           /\ Len(notifs) = 1
           /\ \A i \in 1..Len(notifs) : Cardinality(SuccessAttempts(i)) <= 1

\* C12 (creation retried after a failure): while the scheduler keeps ticking
\* and its context is not cancelled, every (transfer, status) for which
\* CreateAndSendNotification failed before the row was inserted, after the
\* transfer's transition had been stored, eventually has its notification row.
C12_CreationRetried ==
    \A t \in 1..MaxTransfers, status \in Notifiable :
        (<<t, status>> \in createFailed)
            ~> (ctxDone \/ ExistsForTransferAndStatus(t, status))

\* C13 (happy path): as long as nothing has failed and no request has
\* interfered (no store failure, no webhook failure, no cancel or reverse),
\* a poll that takes a PENDING transfer to COMPLETED inserts its notification
\* and goes on to the delivery attempt in the same tick, and outside that
\* attempt every notification row is the only one of its transfer and status,
\* is delivered with attempt_count = 1, first_attempt_at set, next_attempt_at
\* null, has exactly one attempt row, which carries a 2xx status, and its
\* transfer holds the notified status.
C13_HappyPath ==
    [][disturbances' = 0 =>
        LET transfer == Head(pollBatch) IN
        /\ (/\ pc = "poll" /\ pollBatch # <<>> /\ CheckTransferStatus
            /\ transfers[transfer.id].status = NWTransferStatusPending
            /\ transfers'[transfer.id].status = NWTransferStatusCompleted)
             => /\ pc' = "attemptDelivery"
                /\ notifs' = Append(notifs,
                        NewNotification(transfer.id, NWTransferStatusCompleted))
                /\ cur'.id = Len(notifs')
        /\ \A i \in 1..Len(notifs') :
              \/ pc' \in {"attemptDelivery", "recordAttempt"} /\ cur'.id = i
              \/ /\ notifs'[i].delivered
                 /\ notifs'[i].attempt_count = 1
                 /\ notifs'[i].first_attempt_at # NULL
                 /\ notifs'[i].next_attempt_at = NULL
                 /\ Len(attempts'[i]) = 1
                 /\ attempts'[i][1].http_status >= 200 /\ attempts'[i][1].http_status <= 299
                 /\ transfers'[notifs'[i].transfer_id].status = notifs'[i].terminal_status
                 /\ \A j \in 1..Len(notifs') :
                        (notifs'[j].transfer_id = notifs'[i].transfer_id
                           /\ notifs'[j].terminal_status = notifs'[i].terminal_status) => j = i
    ]_vars

\* C13, its case: a tick has ended after it took a transfer to COMPLETED and
\* delivered its notification at the first attempt, nothing having failed.
C13_Witness ==
    /\ pc = "idle" /\ disturbances = 0
    /\ \E i \in 1..Len(notifs) :
         /\ notifs[i].terminal_status = NWTransferStatusCompleted
         /\ notifs[i].delivered /\ notifs[i].attempt_count = 1
         /\ Len(attempts[i]) = 1
         /\ transfers[notifs[i].transfer_id].status = NWTransferStatusCompleted

\* C14 (failure then retry): when the store writes go through, a delivery
\* attempt that ends in a non-2xx response or a transport error appends
\* exactly one attempt row, which records the failure, and leaves the
\* notification with delivered = false, attempt_count one higher and
\* next_attempt_at = backoff(new attempt_count), at least 1 s ahead; the retry
\* pass takes up a notification only once next_attempt_at has passed; and a
\* retry answered 2xx stores delivered = true with attempt_count one higher
\* and appends a success row, so that after one failure the rows read
\* failure, success.
C14_FailureThenRetry ==
    [][LET i == cur.id IN
       /\ (/\ pc = "attemptDelivery" /\ pc' = "scheduleRetry"
           /\ disturbances' = disturbances + (IF ctxDone THEN 0 ELSE 1))
            => /\ Len(attempts'[i]) = Len(attempts[i]) + 1
               /\ SubSeq(attempts'[i], 1, Len(attempts[i])) = attempts[i]
               /\ attempts'[i][Len(attempts'[i])].error
               /\ attempts'[i][Len(attempts'[i])].http_status \notin 200..299
               /\ notifs' = notifs
       /\ (pc = "scheduleRetry" /\ pc' # pc /\ disturbances' = disturbances)
            => /\ notifs'[i].delivered = FALSE
               /\ notifs'[i].attempt_count = notifs[i].attempt_count + 1
               /\ \E jitter \in JitterDraws :
                     notifs'[i].next_attempt_at =
                         calculateBackoff(notifs'[i].attempt_count, jitter)
               /\ notifs'[i].next_attempt_at >= 1000
               /\ attempts' = attempts
       /\ (pc = "retry" /\ pc' = "attemptDelivery")
            => /\ cur'.delivered = FALSE /\ cur'.next_attempt_at <= 0
               /\ notifs[cur'.id].next_attempt_at <= 0
       /\ (/\ pc = "attemptDelivery" /\ pc' = "recordAttempt"
           /\ disturbances' = disturbances)
            => /\ notifs'[i].delivered
               /\ notifs'[i].attempt_count = notifs[i].attempt_count + 1
       /\ (/\ pc = "recordAttempt" /\ pc' # pc /\ disturbances' = disturbances
           /\ Len(attempts[i]) = 1 /\ attempts[i][1].error
           /\ notifs[i].attempt_count = 2)
            => /\ Len(attempts'[i]) = 2
               /\ attempts'[i][1] = attempts[i][1]
               /\ attempts'[i][1].http_status \notin 200..299
               /\ attempts'[i][2].http_status \in 200..299 /\ ~attempts'[i][2].error
               /\ notifs'[i].delivered /\ notifs'[i].attempt_count = 2
    ]_vars

\* C14, its case: a notification whose first attempt failed has been
\* delivered by a retry pass; its attempt rows read failure, success.
C14_Witness ==
    /\ pc = "idle"
    /\ \E i \in 1..Len(notifs) :
         /\ notifs[i].delivered /\ notifs[i].attempt_count = 2
         /\ Len(attempts[i]) = 2
         /\ attempts[i][1].error /\ attempts[i][2].http_status \in 200..299

\* C15 (failure details recorded): whenever no operation is in progress, a
\* notification that is undelivered after at least one attempt has last_error
\* set, and its last_http_status is the status of its latest attempt row
\* (null for a transport failure).
C15_FailureDetailsRecorded ==
    Quiescent =>
        \A i \in 1..Len(notifs) :
            (~notifs[i].delivered /\ notifs[i].attempt_count >= 1)
                => /\ notifs[i].last_error # NULL
                   /\ Len(attempts[i]) >= 1
                        => notifs[i].last_http_status =
                               attempts[i][Len(attempts[i])].http_status

\* C16 (insufficient balance): a CreateTransfer call that gets past the
\* validation step and whose balance query succeeds with available < the
\* requested amount returns ErrNWTransferInsufficientBal, does not call
\* InitiateTransfer and writes no transfer row.
C16_InsufficientBalance ==
    [][(/\ createResp'.err # "ErrNWTransferValidationFailed"
        /\ ~createResp'.balance.callFails
        /\ createResp'.balance.available < RequestAmount)
          => /\ createResp'.err = "ErrNWTransferInsufficientBal"
             /\ ~createResp'.initiateCalled
             /\ transfers' = transfers
    ]_vars

\* C16, its case: with a transfer stored earlier, a request has been refused
\* for its balance.
C16_Witness ==
    /\ Len(transfers) >= 1
    /\ createResp.err = "ErrNWTransferInsufficientBal"
    /\ ~createResp.balance.callFails /\ createResp.balance.available < RequestAmount

\* C17 (upstream failure during reconcile): a status query that fails during
\* PollOnce leaves every transfer row unchanged and writes no notification and
\* no attempt row; and the fetch of the next tick, when the store answers it,
\* returns every transfer whose latest query failed and that is still PENDING
\* or PROCESSING, as long as the rows before it do not fill the fetch limit.
C17_UpstreamFailureDuringReconcile ==
    [][/\ (pc = "poll" /\ pollBatch # <<>> /\ pollBatch' # pollBatch
             /\ Head(pollBatch).id \in queryFailed')
          => /\ transfers' = transfers
             /\ notifs' = notifs
             /\ attempts' = attempts
             /\ pc' = "poll"
       /\ (pc = "idle" /\ pc' = "poll" /\ disturbances' = disturbances)
          => \A t \in queryFailed :
                (/\ IsPendingTransfer(transfers[t])
                 /\ Cardinality({j \in 1..(t - 1) : IsPendingTransfer(transfers[j])})
                        < PollBatchLimit)
                  => \E n \in 1..Len(pollBatch') : pollBatch'[n].id = t
    ]_vars

\* C17, its case: the status query of a transfer has failed, and a later tick
\* has fetched the transfer again, unchanged and without a notification.
C17_Witness ==
    /\ pc = "poll" /\ pollBatch # <<>>
    /\ Head(pollBatch).id \in queryFailed
    /\ IsPendingTransfer(transfers[Head(pollBatch).id])
    /\ ~ExistsForTransferAndStatus(Head(pollBatch).id, NWTransferStatusCompleted)
    /\ ~ExistsForTransferAndStatus(Head(pollBatch).id, NWTransferStatusFailed)

\* C18 (validation rejection): a CreateTransfer call whose validateTransfer
\* call succeeds with an issue of severity "error" in the response, whatever
\* the valid flag, returns ErrNWTransferValidationFailed, does not call
\* InitiateTransfer and writes no transfer row.
C18_ValidationRejection ==
    [][(~createResp'.validation.callFails /\ createResp'.validation.errorIssue)
          => /\ createResp'.err = "ErrNWTransferValidationFailed"
             /\ ~createResp'.initiateCalled
             /\ transfers' = transfers
    ]_vars

\* C19 (initiation failure): a CreateTransfer call whose InitiateTransfer call
\* fails returns ErrNWTransferInitiateFailed and writes no transfer row.
C19_InitiationFailure ==
    [][(createResp'.initiateCalled /\ createResp'.initiate.callFails)
          => /\ createResp'.err = "ErrNWTransferInitiateFailed"
             /\ transfers' = transfers
    ]_vars

\* C19, its case: with a transfer stored earlier, a request has failed at the
\* initiation, the balance having been sufficient.
C19_Witness ==
    /\ Len(transfers) >= 1
    /\ createResp.initiateCalled /\ createResp.initiate.callFails
    /\ ~createResp.balance.callFails
    /\ createResp.err = "ErrNWTransferInitiateFailed"

\* min(base * 2^(k-1), cap) scaled by 1 + jitter/5000 and floored at one
\* second, in milliseconds.
BackoffLaw(base, cap, k, jitter) ==
    LET scaled == (Min(base * Pow2(k - 1), cap) * (5000 + jitter)) \div 5
    IN  IF scaled < 1000 THEN 1000 ELSE scaled

\* The ranges of the backoff for base 2 and cap 60, in milliseconds.
BackoffTable(k, ms) ==
    IF k <= 5
    THEN 800 * Pow2(k) <= ms /\ ms <= 1200 * Pow2(k)
    ELSE 48000 <= ms /\ ms <= 72000

----------------------------------------------------------------------------
\* The pass of the tick the scheduler goroutine is in: attemptDelivery runs
\* inside PollOnce while the polled transfer is still at the head of
\* pollBatch, and inside RetryOnce otherwise.
Pass ==
    CASE pc \in {"idle", "stopped"} -> pc
      [] pc = "poll" -> "PollOnce"
      [] pc = "retry" -> "RetryOnce"
      [] OTHER -> IF pollBatch # <<>> THEN "PollOnce" ELSE "RetryOnce"

\* C21: tick discipline.  In every tick PollOnce runs first and to its end
\* (no polled transfer left, no delivery in flight) before RetryOnce starts;
\* RetryOnce is never followed by PollOnce without a new tick, a tick never
\* starts with RetryOnce, and a tick ends only after RetryOnce: the passes
\* follow each other in the order idle, PollOnce, RetryOnce, idle, each once.
C21_TickDiscipline ==
    [][ /\ Pass' # Pass =>
            \/ Pass = "idle" /\ Pass' \in {"PollOnce", "stopped"}
            \/ /\ Pass = "PollOnce" /\ Pass' = "RetryOnce"
               /\ pollBatch = <<>> /\ cur = NoNotification
               /\ pollBatch' = <<>> /\ cur' = NoNotification
            \/ /\ Pass = "RetryOnce" /\ Pass' = "idle"
               /\ retryBatch = <<>> /\ cur = NoNotification
        /\ Pass' = "PollOnce" => retryBatch' = <<>>
      ]_vars

\* A tick in which both passes had work has ended: the retry pass has just
\* returned from a delivery attempt and the scheduler waits for the next tick.
C21_Witness ==
    /\ pc = "idle"
    /\ \E i \in 1..Len(notifs) : notifs[i].attempt_count >= 2
    /\ ~ctxDone

\* C22: scheduler shutdown.  Once the context is cancelled, Start returns:
\* at its first select when the context was cancelled before any tick, and
\* after the tick under way otherwise.
C22_SchedulerShutdown == ctxDone ~> pc = "stopped"

\* Start has returned after ticks that created and attempted a notification.
C22_Witness == pc = "stopped" /\ notifs # <<>> /\ attempts[1] # <<>>

----------------------------------------------------------------------------
\* The requests of the doRequest call the upstream answered in full (Do and
\* the read of the body succeeded) with a status in lo..hi.
Answered(i, lo, hi) ==
    /\ doReq.requests[i].outcome = "response"
    /\ lo <= doReq.requests[i].status /\ doReq.requests[i].status <= hi

C24_BoundedRetries ==
    /\ Len(doReq.requests) <= doReq.maxRetries + 1
    /\ \A i \in 1..Len(doReq.requests) :
        /\ i < Len(doReq.requests) =>
              \/ doReq.requests[i].outcome \in {"transport", "read"}
              \/ doReq.requests[i].status >= 500
        /\ Answered(i, 0, 399) =>
              /\ i = Len(doReq.requests)
              /\ doReq.pc = "returned"
              /\ doReq.ret = [body |-> TRUE, status |-> doReq.requests[i].status,
                              err |-> "nil", errStatus |-> 0]
    /\ (doReq.maxRetries = 0 /\ doReq.pc = "returned") => Len(doReq.requests) = 1

\* All n + 1 requests were used: a transport error, a 5xx, then a success.
C24_Witness ==
    /\ doReq.maxRetries = MaxRetries
    /\ Len(doReq.requests) = MaxRetries + 1
    /\ doReq.requests[1].outcome = "transport"
    /\ Answered(2, 500, 599)
    /\ Answered(MaxRetries + 1, 200, 299)
    /\ doReq.pc = "returned"

----------------------------------------------------------------------------
\* Equality of two strings up to the case of their letters.
EqualFold(a, b) ==
    /\ Len(a) = Len(b)
    /\ \A i \in 1..Len(a) : ToUpper(a[i]) = ToUpper(b[i])

\* The mapping that compares case-insensitively: the word a string is a case
\* variant of, PENDING when there is none.
ReferenceMapStatus(apiStatus) ==
    IF \E w \in StatusWords : EqualFold(apiStatus, w)
    THEN Join(CHOOSE w \in StatusWords : EqualFold(apiStatus, w))
    ELSE NWTransferStatusPending

\* C25: status mapping.  For every input string MapStatus returns what the
\* case-insensitive reference mapping returns.
C25_StatusMapping ==
    mapCall.status # "none" => mapCall.status = ReferenceMapStatus(mapCall.apiStatus)

\* What does hold: MapStatus agrees with the reference on the strings written
\* all in upper case or all in lower case, and on those that are no case
\* variant of a status word.
UniformCaseAgreement ==
    (/\ mapCall.status # "none"
     /\ \/ \A i \in 1..Len(mapCall.apiStatus) : mapCall.apiStatus[i] = ToUpper(mapCall.apiStatus[i])
        \/ \A i \in 1..Len(mapCall.apiStatus) : mapCall.apiStatus[i] = ToLower(mapCall.apiStatus[i]))
        => mapCall.status = ReferenceMapStatus(mapCall.apiStatus)

----------------------------------------------------------------------------
\* The row is persisted as undelivered and due: delivered = false and
\* next_attempt_at null or not after the current instant.
PersistedDue(row) ==
    /\ row.delivered = FALSE
    /\ row.next_attempt_at = NULL \/ row.next_attempt_at <= 0

----------------------------------------------------------------------------
\* C27: first attempt in the observing tick.  A notification row is inserted
\* by PollOnce only, for the transfer whose transition to COMPLETED or
\* FAILED it has just stored; the insert hands the new row to
\* attemptDelivery at once, with PollOnce still at that transfer; and
\* PollOnce goes on (and in the end returns) only after that attempt: the
\* POST, the record of the attempt and the update of the row.
C27_FirstAttemptInObservingTick ==
    [][ /\ Len(notifs') > Len(notifs) =>
            /\ pc = "poll" /\ Pass' = "PollOnce"
            /\ pc' = "attemptDelivery"
            /\ Len(notifs') = Len(notifs) + 1
            /\ cur'.id = Len(notifs') /\ cur'.attempt_count = 0
            /\ cur'.transfer_id = Head(pollBatch).id
            /\ pollBatch' = pollBatch
            /\ transfers'[Head(pollBatch).id].status = cur'.terminal_status
            /\ cur'.terminal_status \in Notifiable
        /\ (Pass = "PollOnce" /\ pc = "attemptDelivery" /\ pc' # pc) =>
            /\ pc' \in {"recordAttempt", "scheduleRetry"}
            /\ Pass' = "PollOnce" /\ pollBatch' = pollBatch
        /\ (Pass = "PollOnce" /\ pc \in {"recordAttempt", "scheduleRetry"} /\ pc' # pc) =>
            /\ pc' = "poll" /\ pollBatch' = Tail(pollBatch)
            /\ notifyResult' = "sent"
        /\ (Pass = "PollOnce" /\ Pass' # Pass) => pc = "poll" /\ cur = NoNotification
      ]_vars

\* PollOnce is back from the first attempt of a notification it inserted for
\* the transfer it has just seen turn COMPLETED or FAILED.
C27_Witness ==
    /\ pc = "poll" /\ notifyResult = "sent"
    /\ Len(notifs) = 1
    /\ attempts[1] # <<>>
    /\ notifs[1].attempt_count = 1

----------------------------------------------------------------------------
\* C28: same-tick pickup.  When PollOnce returns from a transfer for which it
\* inserted a notification whose first attempt did not deliver it, the retry
\* pass that follows in the same tick fetches that notification for another
\* attempt (the context not cancelled, the fetch succeeding, and fewer older
\* rows due than the batch holds).
C28_SameTickPickup ==
    [][ (/\ pc = "poll" /\ pc' = "retry"
         /\ notifyResult = "sent"
         /\ notifs[Len(notifs)].delivered = FALSE
         /\ ~ctxDone
         /\ disturbances' = disturbances
         /\ Cardinality({k \in 1..(Len(notifs) - 1) : PersistedDue(notifs[k])}) < RetryBatchLimit)
        => \E j \in 1..Len(retryBatch') : retryBatch'[j].id = Len(notifs)
      ]_vars

----------------------------------------------------------------------------
\* C29: every non-terminal transfer is reconciled.  With the scheduler
\* running, a transfer in PENDING or PROCESSING is in time queried upstream
\* by a poll pass (it comes to the head of the pass's batch), unless it has
\* left PENDING and PROCESSING or the scheduler context is cancelled;
\* holding at every moment, this says it is queried again and again.
C29_NoStarvation ==
    \A t \in 1..MaxTransfers :
        (t <= Len(transfers) /\ transfers[t].status \in NonTerminal)
            ~> \/ ctxDone
               \/ t <= Len(transfers) /\ transfers[t].status \in Terminal
               \/ pc = "poll" /\ pollBatch # <<>> /\ Head(pollBatch).id = t

----------------------------------------------------------------------------
\* C30: an in-flight webhook call survives cancellation.  A POST to a
\* regulator that answers (no failure of the regulator or of the store is
\* charged to the step) ends in its 2xx response and is recorded as a
\* delivery, whether or not the scheduler context has been cancelled while
\* the request was under way.
C30_InFlightCallSurvivesCancel ==
    [][ (pc = "attemptDelivery" /\ pc' # pc /\ disturbances' = disturbances) =>
            /\ pc' = "recordAttempt"
            /\ IsSuccess(httpStatus')
            /\ notifs'[cur.id].delivered = TRUE
      ]_vars

----------------------------------------------------------------------------
\* C31: cooperative cancellation of the passes.  With the context cancelled,
\* PollOnce starts no upstream status query and the retry pass hands no
\* notification to attemptDelivery: a pass standing at an iteration boundary
\* goes into no delivery attempt, and all it does with its batch is drop it.
\* The item under way when the context is cancelled is finished.
C31_CooperativeCancellation ==
    [][ ctxDone =>
            /\ ~CheckTransferStatus
            /\ ~RetryDeliver
            /\ (pc \in {"poll", "retry"} /\ pc' # pc) => pc' \in {"retry", "idle"}
            /\ (pc = "poll" /\ pollBatch' # pollBatch) => pollBatch' = <<>>
            /\ (pc = "retry" /\ Len(retryBatch') # Len(retryBatch)) => retryBatch' = <<>>
      ]_vars

\* The retry pass holds a fetched batch and the context is cancelled, with a
\* transfer still waiting to be reconciled.
C31_Witness ==
    /\ ctxDone /\ pc = "retry" /\ retryBatch # <<>>
    /\ \E t \in 1..Len(transfers) : transfers[t].status \in NonTerminal

----------------------------------------------------------------------------
\* The step is PollOnce dealing with the transfer at the head of its batch.
PollItemStep ==
    /\ pc = "poll" /\ pollBatch # <<>>
    /\ pollBatch' = Tail(pollBatch) \/ pc' = "attemptDelivery"

\* The step is PollOnce calling CreateAndSendNotification: the call returns an
\* error, returns nil because the row exists, or inserts the row and goes on
\* to the first delivery attempt.
NotificationInvoked ==
    /\ PollItemStep
    /\ notifyResult' \in {"error", "skipped"} \/ pc' = "attemptDelivery"

\* C32: notification trigger.  The reconciler calls CreateAndSendNotification
\* only for a polled transfer (fetched as PENDING or PROCESSING) whose status
\* it has changed and stored as COMPLETED or FAILED, with that status; it
\* calls it whenever its poll stores such a change; it never calls it when
\* the status it leaves stored is CANCELLED, REVERSED, PENDING or PROCESSING;
\* and every notification row has terminal_status COMPLETED or FAILED.
C32_NotificationTrigger ==
    [][ /\ NotificationInvoked =>
            LET transfer == Head(pollBatch) IN
            /\ transfer.status \in NonTerminal
            /\ transfers'[transfer.id].status \in Notifiable
            /\ transfers'[transfer.id].status # transfer.status
            /\ pc' = "attemptDelivery" =>
                  /\ cur'.transfer_id = transfer.id
                  /\ cur'.terminal_status = transfers'[transfer.id].status
            /\ notifyResult' = "skipped" =>
                  ExistsForTransferAndStatus(transfer.id, transfers'[transfer.id].status)
        /\ (/\ PollItemStep
            /\ transfers'[Head(pollBatch).id].status # transfers[Head(pollBatch).id].status
            /\ transfers'[Head(pollBatch).id].status \in Notifiable) => NotificationInvoked
        /\ (PollItemStep /\ transfers'[Head(pollBatch).id].status \notin Notifiable)
              => ~NotificationInvoked
        /\ Len(notifs') > Len(notifs) => NotificationInvoked
        /\ \A i \in 1..Len(notifs') : notifs'[i].terminal_status \in Notifiable
      ]_vars

\* Both kinds of change have been polled: one transfer went to CANCELLED or
\* REVERSED without a notification, another has its notification.
C32_Witness ==
    /\ Len(notifs) = 1
    /\ \E t \in 1..Len(transfers) :
          /\ transfers[t].status \in {NWTransferStatusCancelled, NWTransferStatusReversed}
          /\ t # notifs[1].transfer_id
          /\ disturbances = 0

----------------------------------------------------------------------------
\* The optional columns of a transfer row the poll may write.
OptionalFields ==
    {"processing_date", "completed_date", "expected_completion_date",
     "error_code", "error_message"}

\* C33: the poll update touches only reported fields.  When a poll has
\* changed the stored status, every optional column whose field the response
\* omitted (empty string) holds the value stored before.
C33_OnlyReportedFields ==
    (pollCall.done /\ pollCall.stored.status # pollCall.before.status) =>
        \A f \in OptionalFields :
            pollCall.resp[f] = "" => pollCall.stored[f] = pollCall.before[f]

\* What does hold: error_code and error_message keep their stored value when
\* the response omits them.
ErrorFieldsKept ==
    (pollCall.done /\ pollCall.stored.status # pollCall.before.status) =>
        \A f \in {"error_code", "error_message"} :
            pollCall.resp[f] = "" => pollCall.stored[f] = pollCall.before[f]

----------------------------------------------------------------------------
\* C34: stable payload.  The payload bytes are fixed when the row is
\* created: every delivery attempt, first or retried, POSTs exactly those
\* bytes, and the stored payload never changes once the row exists.
C34_StablePayload ==
    /\ \A i \in 1..Len(delivery.posted) : delivery.posted[i] = delivery.created
    /\ (delivery.created # <<>>) => delivery.stored = JsonbIn(delivery.created)

\* What does hold: every POST carries the same JSON value (event_id
\* included), the retries are byte-identical among themselves, and the stored
\* value never changes.
PayloadValueStable ==
    /\ \A i \in 1..Len(delivery.posted) :
        /\ JsonbIn(delivery.posted[i]) = JsonbIn(delivery.created)
        /\ i >= 2 => delivery.posted[i] = delivery.posted[2]
    /\ (delivery.created # <<>>) => delivery.stored = JsonbIn(delivery.created)

----------------------------------------------------------------------------
\* C35: the upstream client honours cancellation between attempts.  Once
\* the context has been cancelled between two attempts of one operation
\* (before or during the select on the retry backoff, zero backoff
\* included), no further attempt is made and the operation returns the
\* context's error.
C35_CancelBetweenAttempts ==
    doReq.cancelledAt = "between" =>
        /\ Len(doReq.requests) = doReq.sentAtCancel
        /\ doReq.pc = "returned" => doReq.ret = [body |-> FALSE, status |-> 0,
                                                 err |-> "ctx", errStatus |-> 0]

\* What does hold: the same with a positive backoff.
PositiveBackoffHonoursCancel == ~doReq.zeroBackoff => C35_CancelBetweenAttempts

----------------------------------------------------------------------------
\* C39: retried requests keep their body.  Every request of an operation
\* that carries a JSON body, the first and each retry after a transport
\* error or a 5xx response, is sent with the complete body.
C39_RetriesKeepBody ==
    doReq.hasBody =>
        \A i \in 1..Len(doReq.requests) : doReq.requests[i].body = "full"

\* What does hold: the first request carries the complete body, and every
\* retry after an attempt that got a response goes out with an empty one.
RetryAfterResponseHasNoBody ==
    doReq.hasBody =>
        \A i \in 1..Len(doReq.requests) :
            /\ i = 1 => doReq.requests[i].body = "full"
            /\ (\E j \in 1..(i - 1) : doReq.requests[j].outcome # "transport")
                    => doReq.requests[i].body = "empty"

----------------------------------------------------------------------------
\* C38: every initiated upstream transfer has a local record.  Whenever
\* CreateTransfer has called initiateTransfer and the call has succeeded with
\* a well-formed transfer id, the call has added a Transfer row carrying
\* that id, whatever it returns.
C38_InitiatedHasLocalRecord ==
    [][(/\ createResp'.initiateCalled
        /\ ~createResp'.initiate.callFails
        /\ createResp'.wellFormed)
          => /\ Len(transfers') = Len(transfers) + 1
             /\ createResp'.upstreamID = "response"
      ]_vars

\* What does hold: the same when transferRepo.Create succeeds, that is when
\* CreateTransfer returns no error.
InitiatedAndStored ==
    [][(/\ createResp'.initiateCalled
        /\ ~createResp'.initiate.callFails
        /\ createResp'.wellFormed
        /\ createResp'.err = "nil")
          => /\ Len(transfers') = Len(transfers) + 1
             /\ createResp'.upstreamID = "response"
      ]_vars

----------------------------------------------------------------------------
\* C40: ownership is enforced before mutation.  A CancelTransfer or
\* ReverseTransfer call by a user who is not the owner of the (existing)
\* transfer returns NotFound, calls no upstream operation and leaves the
\* row as it is; and a call by the owner whose upstream operation fails
\* leaves the row as it is.
C40_OwnershipBeforeMutation ==
    [][\A u \in Users, t \in 1..MaxTransfers :
        (t <= Len(transfers) /\ (CancelTransferRequest(u, t) \/ ReverseTransferRequest(u, t)))
            => /\ transfers[t].user # u
                    => /\ getResp'.err = "services.ErrNWTransferNotFound"
                       /\ ~getResp'.upstream
                       /\ transfers' = transfers
               /\ (transfers[t].user = u /\
                   getResp'.err \in {"failed to cancel transfer", "failed to reverse transfer"})
                    => transfers' = transfers
      ]_vars

\* What does hold: the same for a transfer whose user_id is not null.
OwnedTransferProtected ==
    [][\A u \in Users, t \in 1..MaxTransfers :
        (/\ t <= Len(transfers) /\ transfers[t].user # NoUser
         /\ (CancelTransferRequest(u, t) \/ ReverseTransferRequest(u, t)))
            => /\ transfers[t].user # u
                    => /\ getResp'.err = "services.ErrNWTransferNotFound"
                       /\ ~getResp'.upstream
                       /\ transfers' = transfers
               /\ (transfers[t].user = u /\
                   getResp'.err \in {"failed to cancel transfer", "failed to reverse transfer"})
                    => transfers' = transfers
      ]_vars

----------------------------------------------------------------------------
\* C36: batch isolation.  Within one PollOnce or retry pass the fetched
\* batch loses exactly its first item when that item has been handled,
\* whether it failed or not; the rest is dropped only on cancellation, and
\* the pass ends only when the batch is empty.
C36_BatchIsolation ==
    [][ /\ (pc # "idle" /\ pollBatch' # pollBatch)
            => \/ pollBatch' = Tail(pollBatch)
               \/ ctxDone /\ pollBatch' = <<>>
        /\ (pc # "poll" /\ Len(retryBatch') # Len(retryBatch))
            => \/ retryBatch' = Tail(retryBatch)
               \/ ctxDone /\ retryBatch' = <<>>
        /\ (pc = "poll" /\ pc' = "retry") => pollBatch = <<>>
        /\ (pc = "retry" /\ pc' = "idle") => retryBatch = <<>>
      ]_vars

\* The upstream query for the first transfer of a batch of two has failed
\* and the second transfer is the next item of the same pass.
C36_Witness ==
    /\ pc = "poll" /\ ~ctxDone
    /\ Len(pollBatch) = 1 /\ Head(pollBatch).id = 2
    /\ queryFailed = {1}
    /\ transfers[1].status \in NonTerminal

\* The webhook for the first notification of a batch of two has failed and
\* the second notification is the next item of the same retry pass.
RetryBatchGoesOn ==
    /\ pc = "retry" /\ ~ctxDone
    /\ Len(retryBatch) = 1 /\ Head(retryBatch).id = 2
    /\ Len(attempts) = 2 /\ Len(attempts[1]) = 2 /\ attempts[1][2].error
    /\ Len(attempts[2]) = 1

----------------------------------------------------------------------------
\* C37: no lost update between the two background loops.  With the polling
\* loop and the retry loop as separate goroutines handling the same
\* notification, a stored delivered = true is never set back to false, and
\* when both have finished without any failure attempt_count equals the
\* number of attempt rows.
C37_NoLostUpdate ==
    [][ /\ \A i \in 1..Len(notifs) : notifs[i].delivered => notifs'[i].delivered
        /\ ((\A p \in Callers : race'[p].pc = "done") /\ disturbances' = 0)
            => \A i \in 1..Len(notifs') : notifs'[i].attempt_count = Len(attempts'[i])
      ]_vars

\* The first half alone.
DeliveredNeverReset ==
    [][\A i \in 1..Len(notifs) : notifs[i].delivered => notifs'[i].delivered]_vars

\* The second half alone.
AttemptCountMatchesRows ==
    ((\A p \in Callers : race[p].pc = "done") /\ disturbances = 0)
        => \A i \in 1..Len(notifs) : notifs[i].attempt_count = Len(attempts[i])

====
